---- MODULE Spec2Model ----
(***************************************************************************)
(* Model of the bera-reth consensus-extension layer: the Prague1 hardfork  *)
(* resolver, the PoL (proof-of-liquidity) transaction factory, the block   *)
(* executor and the engine payload validator.                              *)
(*                                                                         *)
(* Spec     : one block going through the payload validator's PoL check    *)
(*            and through the block executor (pre-execution, sequencing,   *)
(*            finish).                                                     *)
(* SpecPol  : create_pol_transaction applied to bounded inputs.            *)
(* SpecFee  : next_block_base_fee applied to bounded parent headers.       *)
(* SpecPayload, SpecHeader, SpecTx, SpecGenesis, SpecParams, SpecCompact :  *)
(*            the payload validator, the header wire codec, the            *)
(*            transaction storage codec and signer recovery, chain spec    *)
(*            construction, fee parameters, and the header storage codec,  *)
(*            each applied to bounded inputs.                              *)
(***************************************************************************)
EXTENDS Integers, Sequences, FiniteSets, TLC

VARIABLES
    chainSpec,          \* BerachainChainSpec of the run (immutable)
    block,              \* evm.block(): timestamp, number, basefee, gas_limit
    ctx,                \* BerachainBlockExecutionCtx (prev_proposer_pubkey, parent_beacon_block_root)
    blockTxs,           \* the transactions of the block, in block order
    cursor,             \* position (1-based) of the next transaction handed to the executor
    phase,              \* "new" | "sequencing" | "failed" | "finished"
    receipts,           \* BerachainBlockExecutor.receipts
    gas_used,           \* BerachainBlockExecutor.gas_used
    transaction_index,  \* BerachainBlockExecutor.transaction_index
    db,                 \* state changes committed to evm.db_mut(), in commit order
    hooks,              \* StateChangeSource::Transaction(i) reported to the state hook
    polBuilt,           \* the PoL envelope pre-execution built and ran as system call
    preRet,             \* result of apply_pre_execution_changes
    calls,              \* one record per execute_transaction_with_commit_condition call
    valRet,             \* result of validate_berachain_specific_fields on the block
    arg,                \* input of the pure function under SpecPol / SpecFee
    result              \* its output

vars == <<chainSpec, block, ctx, blockTxs, cursor, phase, receipts, gas_used,
          transaction_index, db, hooks, polBuilt, preRet, calls, valRet, arg, result>>

execVars == <<cursor, phase, receipts, gas_used, transaction_index, db, hooks,
              polBuilt, preRet, calls>>

(***************************************************************************)
(* Bounds of the model.                                                    *)
(***************************************************************************)
\* Width, in bits, the model gives the u64 nonce (64 in the build).
NonceBits == 3
\* Longest block (number of transactions) the model sequences.
MaxTxs == 3
\* Gas limit of the modelled block, in model gas units.
BlockGasLimit == 4
\* Bytes the model gives the B64 header nonce (8 in the build).
NonceBytes == 2

(***************************************************************************)
(* Program constants.                                                      *)
(***************************************************************************)
POL_TX_TYPE == 126
POL_TX_GAS_LIMIT == 30000000
PRAGUE1_MIN_BASE_FEE_WEI == 1000000000
DEFAULT_MIN_BASE_FEE_WEI == 0
\* prague1.time of the delayed-fork test genesis
Prague1Late == 1000
\* baseFeeChangeDenominator of the test genesis
BerachainDenominator == 48
\* max_change_denominator / elasticity_multiplier of the pre-Prague1 entry
EthereumDenominator == 8
ElasticityMultiplier == 2
\* byte length of a BLS public key and ABI head offset of the single dynamic argument
BlsPublicKeyLen == 48
AbiHeadOffset == 32

\* u64::MAX and 2^256 at the model's widths
U64Max == 2 ^ NonceBits - 1
U256Mod == 2 ^ (NonceBits + 2)

SYSTEM_ADDRESS == "0xfffffffffffffffffffffffffffffffffffffffe"
OtherAddress == "0x0000000000000000000000000000000000000001"
PolDistributor == "0x4200000000000000000000000000000000000042"
NoKey == "None"
Keys == {"K1", "K2"}
NoHash == <<>>

Max(a, b) == IF a >= b THEN a ELSE b

(***************************************************************************)
(* Hardfork resolver.                                                      *)
(***************************************************************************)
\* ForkCondition::Timestamp(t).active_at_timestamp(ts)
is_prague1_active_at_timestamp(spec, timestamp) == timestamp >= spec.prague1_time

\* chain_spec.pol_contract(): the chain-configured distributor address
pol_contract(spec) == spec.pol_contract

chain_id(spec) == spec.chain_id

(***************************************************************************)
(* PoL transaction: encoding, hash, factory.                               *)
(***************************************************************************)
\* keccak256 as a collision-free digest of the byte string it is given
keccak256(bytes) == <<"keccak256", bytes>>

\* PoLTx::rlp_encode: the list of the seven fields in declaration order
rlp_encode(tx) ==
    <<tx.chain_id, tx.from, tx.to, tx.nonce, tx.gas_limit, tx.gas_price, tx.input>>

\* Encodable2718 for PoLTx: the type byte, then the RLP list
encode_2718(tx) == <<POL_TX_TYPE>> \o rlp_encode(tx)

\* PoLTx::tx_hash / Sealable::hash_slow
tx_hash(tx) == keccak256(encode_2718(tx))

\* PoLDistributor::distributeForCall{pubkey}.abi_encode(): selector, head offset,
\* byte length, the key
abi_encode_distributeFor(pubkey) ==
    <<"distributeFor(bytes)", AbiHeadOffset, BlsPublicKeyLen, pubkey>>

\* U256 subtraction block_number - 1 (wrapping); the variant saturates at 0
NonceU256_NoWrap(block_number) == IF block_number = 0 THEN 0 ELSE block_number - 1

NonceU256(block_number) == (block_number + U256Mod - 1) % U256Mod

\* nonce_u256.try_into::<u64>() succeeds
NonceFitsU64(nonce_u256) == nonce_u256 <= U64Max

PolTxFields_NonceIsNumber(spec, prev_proposer_pubkey, block_number, base_fee) ==
    [ty |-> "Berachain",
     chain_id |-> chain_id(spec),
     from |-> SYSTEM_ADDRESS,
     to |-> pol_contract(spec),
     input |-> abi_encode_distributeFor(prev_proposer_pubkey),
     nonce |-> block_number % (U64Max + 1),
     gas_limit |-> POL_TX_GAS_LIMIT,
     gas_price |-> base_fee]

\* the PoLTx literal of create_pol_transaction
PolTxFields(spec, prev_proposer_pubkey, block_number, base_fee) ==
    [ty |-> "Berachain",
     chain_id |-> chain_id(spec),
     from |-> SYSTEM_ADDRESS,
     to |-> pol_contract(spec),
     input |-> abi_encode_distributeFor(prev_proposer_pubkey),
     nonce |-> NonceU256(block_number),
     gas_limit |-> POL_TX_GAS_LIMIT,
     gas_price |-> base_fee]

\* create_pol_transaction: Ok(envelope) or the internal nonce-overflow error
create_pol_transaction(spec, prev_proposer_pubkey, block_number, base_fee) ==
    IF ~NonceFitsU64(NonceU256(block_number))
    THEN [ok |-> FALSE, err |-> "Internal(block number overflow for u64 nonce)",
          tx |-> [ty |-> "none"]]
    ELSE [ok |-> TRUE, err |-> "",
          tx |-> PolTxFields(spec, prev_proposer_pubkey, block_number, base_fee)]

(***************************************************************************)
(* Results of the executor's calls.                                        *)
(***************************************************************************)
Ret(tag, gas, err, ei, ai, rh, eh) ==
    [tag |-> tag, gas |-> gas, err |-> err, expected_index |-> ei,
     actual_index |-> ai, received_hash |-> rh, expected_hash |-> eh]

\* Ok(Some(gas_used))
OkSome(gas) == Ret("Some", gas, "", 0, 0, NoHash, NoHash)
\* Ok(None): executed, not committed
OkNone == Ret("None", 0, "", 0, 0, NoHash, NoHash)
\* Err(e) for the errors that carry no data
ErrRet(e) == Ret("Err", 0, e, 0, 0, NoHash, NoHash)

(***************************************************************************)
(* engine::validate_proposer_pubkey_prague1                                *)
(***************************************************************************)
validate_proposer_pubkey_prague1_Lenient(spec, timestamp, proposer_pub_key) == "Ok"

validate_proposer_pubkey_prague1(spec, timestamp, proposer_pub_key) ==
    IF is_prague1_active_at_timestamp(spec, timestamp)
    THEN IF proposer_pub_key = NoKey THEN "MissingProposerPubkey" ELSE "Ok"
    ELSE IF proposer_pub_key # NoKey THEN "ProposerPubkeyNotAllowed" ELSE "Ok"

(***************************************************************************)
(* Block executor.                                                         *)
(***************************************************************************)
IsPol(tx) == tx.ty = "Berachain"

\* BerachainReceiptBuilder::build_receipt (logs are the EVM's and not modelled)
build_receipt_Untyped(tx, success, cumulative_gas_used) ==
    [tx_type |-> "Legacy", success |-> success, cumulative_gas_used |-> cumulative_gas_used]

build_receipt_NoCumulative(tx, success, cumulative_gas_used) ==
    [tx_type |-> tx.ty, success |-> success, cumulative_gas_used |-> 0]

\* BerachainReceiptBuilder::build_receipt
build_receipt(tx, success, cumulative_gas_used) ==
    [tx_type |-> tx.ty, success |-> success, cumulative_gas_used |-> cumulative_gas_used]

Commit(src, pos) == [src |-> src, pos |-> pos]

\* the variant commits the system call's state without a receipt
ExecutePol_NoReceipt(spec, blk, c, rcpts, gasUsed, committed, hks, sysCall) ==
    LET timestamp == blk.timestamp
        v == validate_proposer_pubkey_prague1(spec, timestamp, c.prev_proposer_pubkey)
        unchanged == [receipts |-> rcpts, db |-> committed, hooks |-> hks,
                      built |-> [ty |-> "none"], called |-> FALSE]
    IN  IF v # "Ok" THEN [ret |-> v] @@ unchanged
        ELSE IF ~is_prague1_active_at_timestamp(spec, timestamp)
        THEN [ret |-> "Ok"] @@ unchanged
        ELSE LET pol == create_pol_transaction(spec, c.prev_proposer_pubkey,
                                               blk.number, blk.basefee)
             IN  IF ~pol.ok THEN [ret |-> pol.err] @@ unchanged
                 ELSE IF sysCall = "err"
                 THEN [ret |-> "Other(system call failed)", receipts |-> rcpts,
                       db |-> committed, hooks |-> hks, built |-> pol.tx,
                       called |-> TRUE]
                 ELSE [ret |-> "Ok",
                       receipts |-> rcpts,
                       hooks |-> Append(hks, [index |-> 0, pos |-> 1]),
                       db |-> Append(committed, Commit("pol", 1)),
                       built |-> pol.tx,
                       called |-> TRUE]

\* the variant commits the system call's state and its receipt before it
\* looks at the call's error
ExecutePol_CommitBeforeError(spec, blk, c, rcpts, gasUsed, committed, hks, sysCall) ==
    LET timestamp == blk.timestamp
        v == validate_proposer_pubkey_prague1(spec, timestamp, c.prev_proposer_pubkey)
        unchanged == [receipts |-> rcpts, db |-> committed, hooks |-> hks,
                      built |-> [ty |-> "none"], called |-> FALSE]
    IN  IF v # "Ok" THEN [ret |-> v] @@ unchanged
        ELSE IF ~is_prague1_active_at_timestamp(spec, timestamp)
        THEN [ret |-> "Ok"] @@ unchanged
        ELSE LET pol == create_pol_transaction(spec, c.prev_proposer_pubkey,
                                               blk.number, blk.basefee)
             IN  IF ~pol.ok THEN [ret |-> pol.err] @@ unchanged
                 ELSE [ret |-> IF sysCall = "err" THEN "Other(system call failed)" ELSE "Ok",
                       receipts |-> Append(rcpts,
                            build_receipt(pol.tx, sysCall = "success", gasUsed)),
                       hooks |-> Append(hks, [index |-> 0, pos |-> 1]),
                       db |-> Append(committed, Commit("pol", 1)),
                       built |-> pol.tx,
                       called |-> TRUE]

\* execute_pol_transaction_with_receipt, given what the host's system call does:
\* "success" | "revert" (Ok with a failed result) | "err"
ExecutePol(spec, blk, c, rcpts, gasUsed, committed, hks, sysCall) ==
    LET timestamp == blk.timestamp
        v == validate_proposer_pubkey_prague1(spec, timestamp, c.prev_proposer_pubkey)
        unchanged == [receipts |-> rcpts, db |-> committed, hooks |-> hks,
                      built |-> [ty |-> "none"], called |-> FALSE]
    IN  IF v # "Ok" THEN [ret |-> v] @@ unchanged
        ELSE IF ~is_prague1_active_at_timestamp(spec, timestamp)
        THEN [ret |-> "Ok"] @@ unchanged
        ELSE LET pol == create_pol_transaction(spec, c.prev_proposer_pubkey,
                                               blk.number, blk.basefee)
             IN  IF ~pol.ok THEN [ret |-> pol.err] @@ unchanged
                 ELSE IF sysCall = "err"
                 THEN [ret |-> "Other(system call failed)", receipts |-> rcpts,
                       db |-> committed, hooks |-> hks, built |-> pol.tx,
                       called |-> TRUE]
                 ELSE [ret |-> "Ok",
                       receipts |-> Append(rcpts,
                            build_receipt(pol.tx, sysCall = "success", gasUsed)),
                       hooks |-> Append(hks, [index |-> 0, pos |-> 1]),
                       db |-> Append(committed, Commit("pol", 1)),
                       built |-> pol.tx,
                       called |-> TRUE]

\* the index rule of sequencing: a PoL transaction anywhere but first is an error
PolIndexInvalid_Off(index) == FALSE

PolIndexInvalid(index) == index # 0

\* the fork rule of sequencing: a PoL transaction before Prague1 is an error
PolBeforePragueOne_Off(is_prague1_active) == FALSE

PolBeforePragueOne(is_prague1_active) == ~is_prague1_active

\* the canonical PoL transaction sequencing re-derives for the block
ExpectedPolEnvelope_FixedKey(spec, blk, c) ==
    create_pol_transaction(spec, "K1", blk.number, blk.basefee)

ExpectedPolEnvelope(spec, blk, c) ==
    create_pol_transaction(spec, c.prev_proposer_pubkey, blk.number, blk.basefee)

\* the variant finds every PoL transaction different from the expected one
PolHashMismatch_Always(received_tx_hash, expected_tx_hash) == TRUE

\* received_tx_hash != expected_tx_hash
PolHashMismatch_Off(received_tx_hash, expected_tx_hash) == FALSE

PolHashMismatch(received_tx_hash, expected_tx_hash) ==
    received_tx_hash # expected_tx_hash

\* the PoL branch of execute_transaction_with_commit_condition
PolSequencing(spec, blk, c, tx, index) ==
    LET is_prague1_active == is_prague1_active_at_timestamp(spec, blk.timestamp)
    IN  IF PolIndexInvalid(index)
        THEN Ret("Err", 0, "PolTransactionInvalidIndex", 0, index, NoHash, NoHash)
        ELSE IF PolBeforePragueOne(is_prague1_active)
        THEN ErrRet("PolTransactionBeforePragueOne")
        ELSE LET v == validate_proposer_pubkey_prague1(spec, blk.timestamp,
                                                       c.prev_proposer_pubkey)
             IN  IF v # "Ok" THEN ErrRet(v)
                 ELSE LET expected == ExpectedPolEnvelope(spec, blk, c)
                      IN  IF ~expected.ok THEN ErrRet(expected.err)
                          ELSE LET received_tx_hash == tx_hash(tx)
                                   expected_tx_hash == tx_hash(expected.tx)
                               IN  IF PolHashMismatch(received_tx_hash, expected_tx_hash)
                                   THEN Ret("Err", 0, "PolTransactionHashMismatch", 0, 0,
                                            received_tx_hash, expected_tx_hash)
                                   ELSE OkSome(0)

\* what evm.transact may report for an ordinary transaction: an error, or a
\* result with the gas it used (at most the transaction's gas limit)
EvmOutcomes(tx) ==
    {[ok |-> FALSE, gas |-> 0, success |-> FALSE]}
    \cup {[ok |-> TRUE, gas |-> tx.gas_limit, success |-> TRUE],
          [ok |-> TRUE, gas |-> tx.gas_limit - 1, success |-> FALSE]}

\* the variant executes a transaction whatever gas is left in the block
OrdinarySequencing_NoGasCheck(blk, tx, pos, rcpts, gasUsed, committed, hks, index, out, commit) ==
    LET block_available_gas == (blk.gas_limit - gasUsed) % (U64Max + 1)
        returned(ret) == [ret |-> ret, receipts |-> rcpts, gas_used |-> gasUsed,
                          db |-> committed, hooks |-> hks, transaction_index |-> index]
        applied(ret) ==
            [ret |-> ret,
             hooks |-> Append(hks, [index |-> Len(rcpts), pos |-> pos]),
             gas_used |-> gasUsed + out.gas,
             receipts |-> Append(rcpts, build_receipt(tx, out.success, gasUsed + out.gas)),
             db |-> Append(committed, Commit("tx", pos)),
             transaction_index |-> index + 1]
    IN  IF FALSE /\ tx.gas_limit > block_available_gas
        THEN returned(ErrRet("TransactionGasLimitMoreThanAvailableBlockGas"))
        ELSE IF ~out.ok THEN returned(ErrRet("EVM"))
        ELSE IF ~commit THEN returned(OkNone)
        ELSE applied(OkSome(out.gas))

\* the variant applies the changes before it asks the commit condition
OrdinarySequencing_CommitBeforeCondition(blk, tx, pos, rcpts, gasUsed, committed, hks, index, out, commit) ==
    LET block_available_gas == (blk.gas_limit - gasUsed) % (U64Max + 1)
        returned(ret) == [ret |-> ret, receipts |-> rcpts, gas_used |-> gasUsed,
                          db |-> committed, hooks |-> hks, transaction_index |-> index]
        applied(ret) ==
            [ret |-> ret,
             hooks |-> Append(hks, [index |-> Len(rcpts), pos |-> pos]),
             gas_used |-> gasUsed + out.gas,
             receipts |-> Append(rcpts, build_receipt(tx, out.success, gasUsed + out.gas)),
             db |-> Append(committed, Commit("tx", pos)),
             transaction_index |-> index + 1]
    IN  IF tx.gas_limit > block_available_gas
        THEN returned(ErrRet("TransactionGasLimitMoreThanAvailableBlockGas"))
        ELSE IF ~out.ok THEN returned(ErrRet("EVM"))
        ELSE IF ~commit THEN applied(OkNone)
        ELSE applied(OkSome(out.gas))

\* the ordinary branch of execute_transaction_with_commit_condition, given what
\* evm.transact reports and what the commit condition answers; the available
\* gas is an unsigned subtraction at the width the model gives u64
OrdinarySequencing(blk, tx, pos, rcpts, gasUsed, committed, hks, index, out, commit) ==
    LET block_available_gas == (blk.gas_limit - gasUsed) % (U64Max + 1)
        returned(ret) == [ret |-> ret, receipts |-> rcpts, gas_used |-> gasUsed,
                          db |-> committed, hooks |-> hks, transaction_index |-> index]
        applied(ret) ==
            [ret |-> ret,
             hooks |-> Append(hks, [index |-> Len(rcpts), pos |-> pos]),
             gas_used |-> gasUsed + out.gas,
             receipts |-> Append(rcpts, build_receipt(tx, out.success, gasUsed + out.gas)),
             db |-> Append(committed, Commit("tx", pos)),
             transaction_index |-> index + 1]
    IN  IF tx.gas_limit > block_available_gas
        THEN returned(ErrRet("TransactionGasLimitMoreThanAvailableBlockGas"))
        ELSE IF ~out.ok THEN returned(ErrRet("EVM"))
        ELSE IF ~commit THEN returned(OkNone)
        ELSE applied(OkSome(out.gas))

CallRecord(tx, pos, index, ret) == [tx |-> tx, pos |-> pos, index |-> index, ret |-> ret]

(***************************************************************************)
(* Payload validator: the PoL placement rules.                             *)
(***************************************************************************)
is_pol_transaction(tx) == tx.ty = "Berachain"

ValOk == [ok |-> TRUE, err |-> "", index |-> 0]
ValErr(e, i) == [ok |-> FALSE, err |-> e, index |-> i]

\* Rule 2 of validate_berachain_specific_fields: the 0-based indexes >= 1 that
\* hold a PoL transaction
LaterPolIndexes_None(transactions) == {}

LaterPolIndexes(transactions) ==
    {i \in 1..(Len(transactions) - 1) : is_pol_transaction(transactions[i + 1])}

SetMin_Last(S) == CHOOSE x \in S : \A y \in S : x >= y

\* the first index the loop of Rule 2 stops at
SetMin(S) == CHOOSE x \in S : \A y \in S : x <= y

\* the variant lets a block without transactions through at every timestamp
validate_berachain_specific_fields_EmptyAllowed(spec, transactions, timestamp) ==
    LET is_prague1_active == is_prague1_active_at_timestamp(spec, timestamp)
    IN  IF transactions = <<>> THEN ValOk
        ELSE IF is_prague1_active
        THEN IF ~is_pol_transaction(transactions[1])
             THEN ValErr("First transaction must be a PoL transaction", 0)
             ELSE IF LaterPolIndexes(transactions) # {}
             THEN ValErr("PoL transaction found at index but only allowed at index 0",
                         SetMin(LaterPolIndexes(transactions)))
             ELSE ValOk
        ELSE ValOk

\* BerachainEngineValidator::validate_berachain_specific_fields
validate_berachain_specific_fields(spec, transactions, timestamp) ==
    LET is_prague1_active == is_prague1_active_at_timestamp(spec, timestamp)
    IN  IF transactions = <<>>
        THEN IF is_prague1_active
             THEN ValErr("Block must contain at least one PoL transaction after Prague1 hardfork", 0)
             ELSE ValOk
        ELSE IF is_prague1_active
        THEN IF ~is_pol_transaction(transactions[1])
             THEN ValErr("First transaction must be a PoL transaction", 0)
             ELSE IF LaterPolIndexes(transactions) # {}
             THEN ValErr("PoL transaction found at index but only allowed at index 0",
                         SetMin(LaterPolIndexes(transactions)))
             ELSE ValOk
        ELSE ValOk

(***************************************************************************)
(* The blocks the model runs.                                              *)
(***************************************************************************)
ChainSpecs ==
    {[chain_id |-> 80094, pol_contract |-> PolDistributor, prague1_time |-> t,
      base_fee_change_denominator |-> BerachainDenominator] : t \in {0, Prague1Late}}

BaseSpec == CHOOSE sp \in ChainSpecs : sp.prague1_time = 0

BlockBaseFee == PRAGUE1_MIN_BASE_FEE_WEI

Blocks ==
    {[timestamp |-> ts, number |-> n, basefee |-> BlockBaseFee, gas_limit |-> BlockGasLimit] :
        ts \in {Prague1Late - 1, Prague1Late}, n \in {0, 1, 2}}

\* an ordinary (signed Ethereum) transaction with the given type and gas limit
EthTx(ty, gas_limit) ==
    [ty |-> ty, chain_id |-> 80094, from |-> OtherAddress, to |-> OtherAddress,
     input |-> <<>>, nonce |-> 0, gas_limit |-> gas_limit, gas_price |-> BlockBaseFee]

\* the transactions a block may hold: two ordinary ones, the PoL transaction of
\* block 1 for key K1, and the same with a foreign sender
TxUniverse ==
    {EthTx("Eip1559", 2), EthTx("Legacy", 3),
     PolTxFields(BaseSpec, "K1", 1, BlockBaseFee),
     [PolTxFields(BaseSpec, "K1", 1, BlockBaseFee) EXCEPT !.from = OtherAddress]}

SeqsUpTo(S, n) == UNION {[1..k -> S] : k \in 0..n}

NoArg == [fn |-> "none"]
NoTx == [ty |-> "none"]

Init ==
    /\ chainSpec \in ChainSpecs
    /\ block \in Blocks
    /\ (chainSpec.prague1_time = 0 => block.timestamp = Prague1Late)
    /\ ctx \in {[prev_proposer_pubkey |-> k] : k \in {NoKey} \cup Keys}
    /\ blockTxs \in SeqsUpTo(TxUniverse, MaxTxs)
    /\ cursor = 1
    /\ phase = "new"
    /\ receipts = <<>>
    /\ gas_used = 0
    /\ transaction_index = 0
    /\ db = <<>>
    /\ hooks = <<>>
    /\ polBuilt = NoTx
    /\ preRet = "none"
    /\ calls = <<>>
    /\ valRet = [ok |-> FALSE, err |-> "none", index |-> 0]
    /\ arg = NoArg
    /\ result = NoArg

ValidatorRan == valRet.err # "none" \/ valRet.ok

\* BerachainEngineValidator::validate_berachain_specific_fields on the block
ValidateBerachainSpecificFields ==
    /\ phase = "new"
    /\ ~ValidatorRan
    /\ valRet' = validate_berachain_specific_fields(chainSpec, blockTxs, block.timestamp)
    /\ UNCHANGED <<chainSpec, block, ctx, blockTxs, arg, result>>
    /\ UNCHANGED execVars

\* BlockExecutor::apply_pre_execution_changes: the block-hash and beacon-root
\* system calls of the host (each applied or failed), then the PoL step
ApplyPreExecutionChanges ==
    /\ phase = "new"
    /\ \E sys \in {"blockhashes_failed", "beacon_root_failed", "applied"},
          sysCall \in {"success", "revert", "err"} :
         IF sys = "blockhashes_failed"
         THEN /\ preRet' = "BlockHashContractCall"
              /\ phase' = "failed"
              /\ UNCHANGED <<receipts, db, hooks, polBuilt>>
         ELSE IF sys = "beacon_root_failed"
         THEN /\ preRet' = "BeaconRootContractCall"
              /\ phase' = "failed"
              /\ db' = Append(db, Commit("blockhashes", 0))
              /\ UNCHANGED <<receipts, hooks, polBuilt>>
         ELSE LET committed == db \o <<Commit("blockhashes", 0), Commit("beacon_root", 0)>>
                  r == ExecutePol(chainSpec, block, ctx, receipts, gas_used,
                                  committed, hooks, sysCall)
              IN  /\ preRet' = r.ret
                  /\ phase' = IF r.ret = "Ok" THEN "sequencing" ELSE "failed"
                  /\ receipts' = r.receipts
                  /\ db' = r.db
                  /\ hooks' = r.hooks
                  /\ polBuilt' = r.built
    /\ UNCHANGED <<chainSpec, block, ctx, blockTxs, cursor, gas_used,
                   transaction_index, calls, valRet, arg, result>>

\* execute_transaction_with_commit_condition on the next transaction of the block
ExecuteTransaction ==
    /\ phase = "sequencing"
    /\ cursor <= Len(blockTxs)
    /\ LET tx == blockTxs[cursor]
       IN  IF IsPol(tx)
           THEN LET r == PolSequencing(chainSpec, block, ctx, tx, transaction_index)
                IN  /\ calls' = Append(calls, CallRecord(tx, cursor, transaction_index, r))
                    /\ transaction_index' =
                          IF r.tag = "Some" THEN transaction_index + 1 ELSE transaction_index
                    /\ UNCHANGED <<receipts, gas_used, db, hooks>>
           ELSE \E out \in EvmOutcomes(tx), commit \in BOOLEAN :
                  LET r == OrdinarySequencing(block, tx, cursor, receipts, gas_used, db,
                                              hooks, transaction_index, out, commit)
                  IN  /\ calls' = Append(calls,
                            CallRecord(tx, cursor, transaction_index, r.ret))
                      /\ receipts' = r.receipts
                      /\ gas_used' = r.gas_used
                      /\ db' = r.db
                      /\ hooks' = r.hooks
                      /\ transaction_index' = r.transaction_index
    /\ cursor' = cursor + 1
    /\ UNCHANGED <<chainSpec, block, ctx, blockTxs, phase, polBuilt, preRet,
                   valRet, arg, result>>

\* BlockExecutor::finish: post-block balance increments, then the result is returned
Finish ==
    /\ phase = "sequencing"
    /\ phase' = "finished"
    /\ db' = Append(db, Commit("balance_increments", 0))
    /\ UNCHANGED <<chainSpec, block, ctx, blockTxs, cursor, receipts, gas_used,
                   transaction_index, hooks, polBuilt, preRet, calls, valRet, arg, result>>

Next ==
    \/ ValidateBerachainSpecificFields
    \/ ApplyPreExecutionChanges
    \/ ExecuteTransaction
    \/ Finish

Spec == Init /\ [][Next]_vars

(***************************************************************************)
(* SpecPol: the PoL transaction factory on bounded inputs.                 *)
(***************************************************************************)
IdleExecutor ==
    /\ cursor = 1
    /\ phase = "idle"
    /\ receipts = <<>>
    /\ gas_used = 0
    /\ transaction_index = 0
    /\ db = <<>>
    /\ hooks = <<>>
    /\ polBuilt = NoTx
    /\ preRet = "none"
    /\ calls = <<>>
    /\ valRet = [ok |-> FALSE, err |-> "none", index |-> 0]
    /\ blockTxs = <<>>
    /\ ctx = [prev_proposer_pubkey |-> NoKey]
    /\ block = [timestamp |-> 0, number |-> 0, basefee |-> 0, gas_limit |-> 0]

PolSpecs ==
    {[chain_id |-> c, pol_contract |-> a, prague1_time |-> 0,
      base_fee_change_denominator |-> BerachainDenominator] :
        c \in {80094, 80069}, a \in {PolDistributor, OtherAddress}}

InitPol ==
    /\ IdleExecutor
    /\ chainSpec \in PolSpecs
    /\ arg \in {[fn |-> "create_pol_transaction", prev_proposer_pubkey |-> k,
                 block_number |-> n, base_fee |-> f] :
                    k \in Keys, n \in 0..(U256Mod - 1), f \in {7, BlockBaseFee}}
    /\ result = NoArg

CreatePolTransaction ==
    /\ arg.fn = "create_pol_transaction"
    /\ result = NoArg
    /\ result' = [fn |-> "create_pol_transaction"] @@
                 create_pol_transaction(chainSpec, arg.prev_proposer_pubkey,
                                        arg.block_number, arg.base_fee)
    /\ UNCHANGED <<chainSpec, block, ctx, blockTxs, valRet, arg>>
    /\ UNCHANGED execVars

NextPol == CreatePolTransaction

SpecPol == InitPol /\ [][NextPol]_vars

(***************************************************************************)
(* Claims about sequencing PoL transactions (Spec).                        *)
(***************************************************************************)
Prague1ActiveInBlock == is_prague1_active_at_timestamp(chainSpec, block.timestamp)

\* C1: a PoL transaction handed to sequencing while the executor's
\* transaction index is not 0 is rejected with PolTransactionInvalidIndex
\* carrying expected_index 0 and the actual index, whatever the fork status,
\* the proposer key and the transaction's hash.
C1_PolNotFirstRejected ==
    \A i \in DOMAIN calls :
        (IsPol(calls[i].tx) /\ calls[i].index # 0) =>
            /\ calls[i].ret.tag = "Err"
            /\ calls[i].ret.err = "PolTransactionInvalidIndex"
            /\ calls[i].ret.expected_index = 0
            /\ calls[i].ret.actual_index = calls[i].index

\* reached: the canonical PoL transaction of a Prague1 block arrives at index 1
C1_Witness ==
    \E i \in DOMAIN calls :
        /\ IsPol(calls[i].tx)
        /\ calls[i].index = 1
        /\ Prague1ActiveInBlock
        /\ polBuilt = calls[i].tx
        /\ calls[i].ret.err = "PolTransactionInvalidIndex"

\* C2: at index 0 of a Prague1 block with the proposer key present, a PoL
\* transaction whose hash differs from the hash of the transaction
\* create_pol_transaction derives from the chain spec, the context's key, the
\* block number and the block base fee is rejected with
\* PolTransactionHashMismatch carrying the received and the expected hash.
C2_HashMismatchRejected ==
    \A i \in DOMAIN calls :
        LET expected == create_pol_transaction(chainSpec, ctx.prev_proposer_pubkey,
                                               block.number, block.basefee)
        IN  (/\ IsPol(calls[i].tx)
             /\ calls[i].index = 0
             /\ Prague1ActiveInBlock
             /\ ctx.prev_proposer_pubkey # NoKey
             /\ expected.ok
             /\ tx_hash(calls[i].tx) # tx_hash(expected.tx)) =>
                /\ calls[i].ret.tag = "Err"
                /\ calls[i].ret.err = "PolTransactionHashMismatch"
                /\ calls[i].ret.received_hash = tx_hash(calls[i].tx)
                /\ calls[i].ret.expected_hash = tx_hash(expected.tx)

\* reached: a PoL transaction that differs from the expected one only in its
\* sender is refused at index 0
C2_Witness ==
    \E i \in DOMAIN calls :
        /\ IsPol(calls[i].tx)
        /\ calls[i].index = 0
        /\ polBuilt # NoTx
        /\ calls[i].tx = [polBuilt EXCEPT !.from = OtherAddress]
        /\ calls[i].ret.err = "PolTransactionHashMismatch"

\* C3: at index 0 of a block whose timestamp is before Prague1 activation a
\* PoL transaction is rejected with PolTransactionBeforePragueOne, whatever
\* its hash.
C3_PolBeforePragueOneRejected ==
    \A i \in DOMAIN calls :
        (IsPol(calls[i].tx) /\ calls[i].index = 0 /\ ~Prague1ActiveInBlock) =>
            /\ calls[i].ret.tag = "Err"
            /\ calls[i].ret.err = "PolTransactionBeforePragueOne"

\* reached: before Prague1 both PoL transactions of the block's universe were
\* refused at index 0
C3_Witness ==
    /\ ~Prague1ActiveInBlock
    /\ \E i, j \in DOMAIN calls :
        /\ IsPol(calls[i].tx) /\ IsPol(calls[j].tx)
        /\ calls[i].tx.from # calls[j].tx.from
        /\ calls[i].index = 0 /\ calls[j].index = 0
        /\ calls[i].ret.err = "PolTransactionBeforePragueOne"
        /\ calls[j].ret.err = "PolTransactionBeforePragueOne"

(***************************************************************************)
(* Claims about pre-execution (Spec).                                      *)
(***************************************************************************)
\* pre-execution returned from the PoL step (the host's block-hash and
\* beacon-root calls before it did not fail)
ReachedPolStep ==
    /\ preRet # "none"
    /\ preRet \notin {"BlockHashContractCall", "BeaconRootContractCall"}

C6_BuiltEqualsRederived ==
    \A i \in DOMAIN calls :
        (IsPol(calls[i].tx) /\ calls[i].ret.tag = "Some") =>
            /\ polBuilt # NoTx
            /\ calls[i].tx = polBuilt
            /\ encode_2718(calls[i].tx) = encode_2718(polBuilt)
            /\ tx_hash(calls[i].tx) = tx_hash(polBuilt)

\* reached: a PoL transaction was accepted after pre-execution built one
C6_Witness ==
    \E i \in DOMAIN calls :
        /\ IsPol(calls[i].tx)
        /\ calls[i].ret.tag = "Some"
        /\ polBuilt # NoTx
        /\ \E k \in DOMAIN db : db[k].src = "pol"

(***************************************************************************)
(* Claims about the factory (SpecPol).                                     *)
(***************************************************************************)
PolCalled == result # NoArg /\ arg.fn = "create_pol_transaction"

\* C5: for every block number n with 1 <= n <= u64::MAX + 1 the factory
\* returns a PoL transaction with nonce n - 1, gas price = base fee, gas limit
\* 30,000,000, sender = system address, recipient = the chain spec's PoL
\* distributor, chain id = the chain spec's, call data = ABI encoding of
\* distributeFor(key).
C5_PolTransactionFields ==
    (PolCalled /\ 1 <= arg.block_number /\ arg.block_number <= U64Max + 1) =>
        /\ result.ok
        /\ result.tx.ty = "Berachain"
        /\ result.tx.nonce = arg.block_number - 1
        /\ result.tx.gas_price = arg.base_fee
        /\ result.tx.gas_limit = 30000000
        /\ result.tx.from = SYSTEM_ADDRESS
        /\ result.tx.to = chainSpec.pol_contract
        /\ result.tx.chain_id = chainSpec.chain_id
        /\ result.tx.input =
              <<"distributeFor(bytes)", 32, 48, arg.prev_proposer_pubkey>>

\* reached: the largest block number whose nonce still fits
C5_Witness ==
    /\ PolCalled
    /\ arg.block_number = U64Max + 1
    /\ result.ok
    /\ result.tx.nonce = U64Max

\* C7: the factory returns an error and no transaction when the block number
\* is 0 and whenever block_number - 1 exceeds u64::MAX.
C7_PolTransactionNonceError ==
    (PolCalled /\ (arg.block_number = 0 \/ arg.block_number - 1 > U64Max)) =>
        /\ ~result.ok
        /\ result.err # ""
        /\ result.tx = NoTx

\* reached: block number 0 was refused
C7_Witness ==
    /\ PolCalled
    /\ arg.block_number = 0
    /\ ~result.ok

(***************************************************************************)
(* SpecFee: next_block_base_fee on bounded parent headers.                 *)
(***************************************************************************)
NoFee == -1

\* the variant resolves every chain spec as if Prague1 were at genesis
base_fee_params_at_timestamp_AlwaysConstant(spec, timestamp) ==
    [max_change_denominator |-> spec.base_fee_change_denominator,
     elasticity_multiplier |-> ElasticityMultiplier]

\* BaseFeeParamsKind built by From<Genesis>, resolved at a timestamp: constant
\* when Prague1 is at genesis, otherwise the last entry whose fork is active at
\* the timestamp, the first entry (London, a block fork) when none is
base_fee_params_at_timestamp(spec, timestamp) ==
    IF spec.prague1_time = 0
    THEN [max_change_denominator |-> spec.base_fee_change_denominator,
          elasticity_multiplier |-> ElasticityMultiplier]
    ELSE IF is_prague1_active_at_timestamp(spec, timestamp)
    THEN [max_change_denominator |-> spec.base_fee_change_denominator,
          elasticity_multiplier |-> ElasticityMultiplier]
    ELSE [max_change_denominator |-> EthereumDenominator,
          elasticity_multiplier |-> ElasticityMultiplier]

\* floor(a * b / m) of the 128-bit product, computed without forming a * b
MulDiv(a, b, m) == (a \div m) * b + ((a % m) * b) \div m

\* alloy_eips::calc_next_block_base_fee (EIP-1559)
calc_next_block_base_fee(gasUsed, gasLimit, base_fee, params) ==
    LET gas_target == gasLimit \div params.elasticity_multiplier
    IN  IF gasUsed = gas_target THEN base_fee
        ELSE IF gasUsed > gas_target
        THEN base_fee + Max(1, MulDiv(base_fee, gasUsed - gas_target,
                                      gas_target * params.max_change_denominator))
        ELSE Max(0, base_fee - MulDiv(base_fee, gas_target - gasUsed,
                                      gas_target * params.max_change_denominator))

\* the floor next_block_base_fee applies, decided at the parent's timestamp
MinBaseFee_AfterActivation(spec, parent_timestamp) ==
    IF parent_timestamp > spec.prague1_time
    THEN PRAGUE1_MIN_BASE_FEE_WEI ELSE DEFAULT_MIN_BASE_FEE_WEI

MinBaseFee(spec, parent_timestamp) ==
    IF is_prague1_active_at_timestamp(spec, parent_timestamp)
    THEN PRAGUE1_MIN_BASE_FEE_WEI ELSE DEFAULT_MIN_BASE_FEE_WEI

FeeNone == [some |-> FALSE, fee |-> 0]
FeeSome(f) == [some |-> TRUE, fee |-> f]

next_block_base_fee_UsesBlockTimestamp(spec, parent, timestamp) ==
    IF parent.base_fee_per_gas = NoFee THEN FeeNone
    ELSE FeeSome(Max(calc_next_block_base_fee(parent.gas_used, parent.gas_limit,
                        parent.base_fee_per_gas,
                        base_fee_params_at_timestamp(spec, parent.timestamp)),
                     MinBaseFee(spec, timestamp)))

\* BerachainChainSpec::next_block_base_fee(parent, _)
next_block_base_fee(spec, parent, timestamp) ==
    IF parent.base_fee_per_gas = NoFee THEN FeeNone
    ELSE FeeSome(Max(calc_next_block_base_fee(parent.gas_used, parent.gas_limit,
                        parent.base_fee_per_gas,
                        base_fee_params_at_timestamp(spec, parent.timestamp)),
                     MinBaseFee(spec, parent.timestamp)))

\* timestamps around the delayed activation, and the new-block timestamps tried
FeeTimestamps == {Prague1Late - 1, Prague1Late, Prague1Late + 1}
NewBlockTimestamps == {0} \cup FeeTimestamps

\* parent gas (used, limit): the test's default header, and a block of 8 units
\* empty, under target, at target and full
ParentGas == {<<0, 0>>, <<0, 8>>, <<2, 8>>, <<4, 8>>, <<8, 8>>}

ParentHeaders ==
    {[timestamp |-> ts, base_fee_per_gas |-> f, gas_used |-> g[1], gas_limit |-> g[2]] :
        ts \in FeeTimestamps,
        f \in {NoFee, 7, 100000000, 1000000000, 1100000000},
        g \in ParentGas}

InitFee ==
    /\ IdleExecutor
    /\ chainSpec \in ChainSpecs
    /\ arg \in {[fn |-> "next_block_base_fee", parent |-> h, timestamp |-> t] :
                    h \in ParentHeaders, t \in NewBlockTimestamps}
    /\ result = NoArg

NextBlockBaseFee ==
    /\ arg.fn = "next_block_base_fee"
    /\ result = NoArg
    /\ result' = [fn |-> "next_block_base_fee"] @@
                 next_block_base_fee(chainSpec, arg.parent, arg.timestamp)
    /\ UNCHANGED <<chainSpec, block, ctx, blockTxs, valRet, arg>>
    /\ UNCHANGED execVars

NextFee == NextBlockBaseFee

SpecFee == InitFee /\ [][NextFee]_vars

FeeCalled == result # NoArg /\ arg.fn = "next_block_base_fee"

\* the EIP-1559 value of the parent with the parameters of the parent's timestamp
RawFee ==
    calc_next_block_base_fee(arg.parent.gas_used, arg.parent.gas_limit,
        arg.parent.base_fee_per_gas,
        base_fee_params_at_timestamp(chainSpec, arg.parent.timestamp))

\* C8: for a parent with a base fee whose timestamp is at or after Prague1
\* activation the result is max(EIP-1559 value, 1,000,000,000), so at least
\* 1 gwei; with Prague1 at 1000, a parent at 1000 with base fee 100,000,000
\* and zero gas used and gas limit yields exactly 1,000,000,000.
C8_FloorAtOrAfterPrague1 ==
    (/\ FeeCalled
     /\ arg.parent.base_fee_per_gas # NoFee
     /\ arg.parent.timestamp >= chainSpec.prague1_time) =>
        /\ result.some
        /\ result.fee >= 1000000000
        /\ (RawFee >= 1000000000 => result.fee = RawFee)
        /\ (RawFee < 1000000000 => result.fee = 1000000000)
        /\ (/\ chainSpec.prague1_time = 1000
            /\ arg.parent.timestamp = 1000
            /\ arg.parent.base_fee_per_gas = 100000000
            /\ arg.parent.gas_used = 0
            /\ arg.parent.gas_limit = 0) => result.fee = 1000000000

\* reached: the example of the claim, a parent exactly at the activation time
C8_Witness ==
    /\ FeeCalled
    /\ chainSpec.prague1_time = 1000
    /\ arg.parent.timestamp = 1000
    /\ arg.parent.base_fee_per_gas = 100000000
    /\ arg.parent.gas_used = 0
    /\ arg.parent.gas_limit = 0
    /\ result.fee = 1000000000

\* C9: the result is the same for every value of the new block's timestamp
\* argument, and for a parent before Prague1 activation it is the unclamped
\* EIP-1559 value even when the new block is at or after activation.
C9_FloorDecidedByParent ==
    FeeCalled =>
        /\ \A t \in NewBlockTimestamps :
              next_block_base_fee(chainSpec, arg.parent, t) =
                 [some |-> result.some, fee |-> result.fee]
        /\ (/\ arg.parent.base_fee_per_gas # NoFee
            /\ arg.parent.timestamp < chainSpec.prague1_time) =>
               (result.some /\ result.fee = RawFee)

\* reached: parent before activation, new block at activation, result below 1 gwei
C9_Witness ==
    /\ FeeCalled
    /\ arg.parent.timestamp < chainSpec.prague1_time
    /\ arg.timestamp >= chainSpec.prague1_time
    /\ arg.parent.base_fee_per_gas = 1000000000
    /\ result.some
    /\ result.fee < 1000000000

(***************************************************************************)
(* Claims relating the payload validator and sequencing (Spec).            *)
(***************************************************************************)
PolErrors == {"PolTransactionInvalidIndex", "PolTransactionBeforePragueOne",
              "PolTransactionHashMismatch"}

AllCommitted(n) == \A i \in 1..n : calls[i].ret.tag = "Some"

\* the executor sequenced the whole block and no call failed
SequencedWhole ==
    /\ preRet = "Ok"
    /\ Len(calls) = Len(blockTxs)
    /\ AllCommitted(Len(calls))

\* the first failing call of the block is the last one made, with a PoL error
FirstErrorIsPol ==
    /\ preRet = "Ok"
    /\ Len(calls) >= 1
    /\ AllCommitted(Len(calls) - 1)
    /\ calls[Len(calls)].ret.tag = "Err"
    /\ calls[Len(calls)].ret.err \in PolErrors

RecoverOk(address) == [ok |-> TRUE, signer |-> address]
RecoveryError == [ok |-> FALSE, signer |-> "RecoveryError"]

\* an Ethereum transaction with its signature: the address the signature
\* recovers to, whether it recovers at all, and whether s is in the lower half
SignedEthTx(ty, signature) ==
    [ty |-> ty, chain_id |-> 80094, to |-> OtherAddress, input |-> <<>>, nonce |-> 0,
     gas_limit |-> 2, gas_price |-> BlockBaseFee, signature |-> signature]

Signature(signer, valid, low_s) == [signer |-> signer, valid |-> valid, low_s |-> low_s]

\* alloy's TxEnvelope::recover_signer / recover_signer_unchecked
eth_recover_signer(tx, checked) ==
    IF tx.signature.valid /\ (~checked \/ tx.signature.low_s)
    THEN RecoverOk(tx.signature.signer) ELSE RecoveryError

\* the variant returns the sender the transaction itself names
PoLTx_recover_signer_FromField(tx, checked) == RecoverOk(tx.from)

\* SignerRecoverable for PoLTx: recover_signer and recover_signer_unchecked
PoLTx_recover_signer(tx, checked) == RecoverOk(SYSTEM_ADDRESS)

\* SignerRecoverable for BerachainTxEnvelope
recover_signer(tx, checked) ==
    IF IsPol(tx) THEN PoLTx_recover_signer(tx, checked)
    ELSE eth_recover_signer(tx, checked)

(***************************************************************************)
(* BerachainHeader: RLP encoding and hash.                                 *)
(***************************************************************************)
\* number of bytes of the big-endian form of an integer without leading zeros
ByteLen(v) ==
    IF v = 0 THEN 0 ELSE IF v < 256 THEN 1 ELSE IF v < 65536 THEN 2
    ELSE IF v < 16777216 THEN 3 ELSE 4

\* Option<T>
None == [some |-> FALSE]
Some(v) == [some |-> TRUE, v |-> v]

\* one RLP string: the length of its content, the content, and the bytes it
\* takes with its prefix
Item(len, val, size) == [len |-> len, val |-> val, size |-> size]
\* Encodable for u64 and U256::from(u64): a value below 0x80 is its own byte
EncU64(v) == Item(ByteLen(v), v, IF v < 128 THEN 1 ELSE 1 + ByteLen(v))
\* Encodable for B256, Address, Bloom, B64, BlsPublicKey, Bytes
EncBytes(len, v) == Item(len, v, IF len < 56 THEN 1 + len ELSE 1 + ByteLen(len) + len)

RECURSIVE SumSize(_)
SumSize(items) == IF items = <<>> THEN 0 ELSE Head(items).size + SumSize(Tail(items))

OptU64(opt) == IF opt.some THEN <<EncU64(opt.v)>> ELSE <<>>
OptBytes(len, opt) == IF opt.some THEN <<EncBytes(len, opt.v)>> ELSE <<>>

\* the optional trailing fields, each written only when present; the variant
\* writes the proposer key before the requests hash
HeaderOptionalItems_KeyBeforeRequests(h) ==
    OptU64(h.base_fee_per_gas)
    \o OptBytes(32, h.withdrawals_root)
    \o OptU64(h.blob_gas_used)
    \o OptU64(h.excess_blob_gas)
    \o OptBytes(32, h.parent_beacon_block_root)
    \o OptBytes(48, h.prev_proposer_pubkey)
    \o OptBytes(32, h.requests_hash)

HeaderOptionalItems(h) ==
    OptU64(h.base_fee_per_gas)
    \o OptBytes(32, h.withdrawals_root)
    \o OptU64(h.blob_gas_used)
    \o OptU64(h.excess_blob_gas)
    \o OptBytes(32, h.parent_beacon_block_root)
    \o OptBytes(32, h.requests_hash)
    \o OptBytes(48, h.prev_proposer_pubkey)

\* the fifteen fields every header has, in encoding order
HeaderFixedItems(h) ==
    <<EncBytes(32, h.parent_hash), EncBytes(32, h.ommers_hash),
      EncBytes(20, h.beneficiary), EncBytes(32, h.state_root),
      EncBytes(32, h.transactions_root), EncBytes(32, h.receipts_root),
      EncBytes(256, h.logs_bloom), EncU64(h.difficulty), EncU64(h.number),
      EncU64(h.gas_limit), EncU64(h.gas_used), EncU64(h.timestamp),
      EncBytes(h.extra_data.len, h.extra_data.bytes), EncBytes(32, h.mix_hash),
      EncBytes(8, h.nonce)>>

\* the variant leaves the proposer key out of the declared length
header_payload_length_WithoutKey(h) ==
    SumSize(HeaderFixedItems(h))
    + (IF h.base_fee_per_gas.some THEN EncU64(h.base_fee_per_gas.v).size ELSE 0)
    + (IF h.withdrawals_root.some THEN EncBytes(32, h.withdrawals_root.v).size ELSE 0)
    + (IF h.blob_gas_used.some THEN EncU64(h.blob_gas_used.v).size ELSE 0)
    + (IF h.excess_blob_gas.some THEN EncU64(h.excess_blob_gas.v).size ELSE 0)
    + (IF h.parent_beacon_block_root.some
       THEN EncBytes(32, h.parent_beacon_block_root.v).size ELSE 0)
    + (IF h.requests_hash.some THEN EncBytes(32, h.requests_hash.v).size ELSE 0)

\* BerachainHeader::header_payload_length: the length() of every field present
header_payload_length(h) ==
    SumSize(HeaderFixedItems(h))
    + (IF h.base_fee_per_gas.some THEN EncU64(h.base_fee_per_gas.v).size ELSE 0)
    + (IF h.withdrawals_root.some THEN EncBytes(32, h.withdrawals_root.v).size ELSE 0)
    + (IF h.blob_gas_used.some THEN EncU64(h.blob_gas_used.v).size ELSE 0)
    + (IF h.excess_blob_gas.some THEN EncU64(h.excess_blob_gas.v).size ELSE 0)
    + (IF h.parent_beacon_block_root.some
       THEN EncBytes(32, h.parent_beacon_block_root.v).size ELSE 0)
    + (IF h.requests_hash.some THEN EncBytes(32, h.requests_hash.v).size ELSE 0)
    + (IF h.prev_proposer_pubkey.some
       THEN EncBytes(48, h.prev_proposer_pubkey.v).size ELSE 0)

\* Encodable::encode for BerachainHeader: the list header with the payload
\* length, then the items
header_encode(h) ==
    [list |-> TRUE, payload_length |-> header_payload_length(h),
     items |-> HeaderFixedItems(h) \o HeaderOptionalItems(h)]

\* Sealable::hash_slow
hash_slow(h) == keccak256(header_encode(h))

\* what each optional trailing field decodes from, in decoding order
OptionalKinds == <<"u64", "b256", "u64", "u64", "b256", "b256", "key">>
FixedKinds == <<"b256", "b256", "address", "b256", "b256", "b256", "bloom", "u256",
                "u64", "u64", "u64", "u64", "bytes", "b256", "b64">>

\* Decodable::decode of one field of the given type accepts the string
DecodeOk(kind, item) ==
    CASE kind = "u64" -> item.len <= 8
      [] kind = "u256" -> item.len <= 32
      [] kind = "b64" -> item.len = 8
      [] kind = "address" -> item.len = 20
      [] kind = "b256" -> item.len = 32
      [] kind = "key" -> item.len = 48
      [] kind = "bloom" -> item.len = 256
      [] kind = "bytes" -> TRUE

\* the optional fields of the decoder: the k-th is read while fewer bytes than
\* the payload length are consumed; returns how many were read
RECURSIVE DecodeTail(_, _, _, _)
DecodeTail(items, k, consumed, payload_length) ==
    IF k > Len(OptionalKinds) \/ consumed >= payload_length
    THEN IF consumed = payload_length
         THEN [ok |-> TRUE, err |-> "", n |-> k - 1]
         ELSE [ok |-> FALSE, err |-> "ListLengthMismatch", n |-> k - 1]
    ELSE IF items = <<>>
    THEN [ok |-> FALSE, err |-> "InputTooShort", n |-> k - 1]
    ELSE IF ~DecodeOk(OptionalKinds[k], Head(items))
    THEN [ok |-> FALSE, err |-> "UnexpectedLength", n |-> k - 1]
    ELSE DecodeTail(Tail(items), k + 1, consumed + Head(items).size, payload_length)

DecodeErr(e) == [ok |-> FALSE, err |-> e]

\* Decodable::decode for BerachainHeader
header_decode(buf) ==
    IF ~buf.list THEN DecodeErr("UnexpectedString")
    ELSE IF Len(buf.items) < Len(FixedKinds) THEN DecodeErr("InputTooShort")
    ELSE IF \E i \in DOMAIN FixedKinds : ~DecodeOk(FixedKinds[i], buf.items[i])
    THEN DecodeErr("UnexpectedLength")
    ELSE LET it == buf.items
             nf == Len(FixedKinds)
             tail == DecodeTail(SubSeq(it, nf + 1, Len(it)), 1,
                                SumSize(SubSeq(it, 1, nf)), buf.payload_length)
             opt(k) == IF k <= tail.n THEN Some(it[nf + k].val) ELSE None
         IN  IF ~tail.ok THEN DecodeErr(tail.err)
             ELSE [ok |-> TRUE, err |-> "",
                   header |->
                     [parent_hash |-> it[1].val, ommers_hash |-> it[2].val,
                      beneficiary |-> it[3].val, state_root |-> it[4].val,
                      transactions_root |-> it[5].val, receipts_root |-> it[6].val,
                      logs_bloom |-> it[7].val, difficulty |-> it[8].val,
                      number |-> it[9].val, gas_limit |-> it[10].val,
                      gas_used |-> it[11].val, timestamp |-> it[12].val,
                      extra_data |-> [len |-> it[13].len, bytes |-> it[13].val],
                      mix_hash |-> it[14].val, nonce |-> it[15].val,
                      base_fee_per_gas |-> opt(1), withdrawals_root |-> opt(2),
                      blob_gas_used |-> opt(3), excess_blob_gas |-> opt(4),
                      parent_beacon_block_root |-> opt(5), requests_hash |-> opt(6),
                      prev_proposer_pubkey |-> opt(7)]]

(***************************************************************************)
(* Payload validator: prague1::ensure_well_formed_fields and               *)
(* ensure_well_formed_payload.                                             *)
(***************************************************************************)
\* the variant accepts any header key once the sidecar carries one
validate_prague1_active_NoMatch(header, parent_proposer_pub_key) ==
    IF ~parent_proposer_pub_key.some
    THEN "Prague1 active but parent proposer pubkey missing"
    ELSE "Ok"

validate_prague1_active(header, parent_proposer_pub_key) ==
    IF ~parent_proposer_pub_key.some
    THEN "Prague1 active but parent proposer pubkey missing"
    ELSE IF header.prev_proposer_pubkey # Some(parent_proposer_pub_key.v)
    THEN "Prague1 active but parent proposer pubkey mismatch"
    ELSE "Ok"

validate_prague1_inactive(header, parent_proposer_pub_key) ==
    IF parent_proposer_pub_key.some
    THEN "Prague1 not active but parent proposer pubkey present"
    ELSE IF header.prev_proposer_pubkey.some
    THEN "Prague1 not active but header contains proposer pubkey"
    ELSE "Ok"

\* prague1::ensure_well_formed_fields
prague1_ensure_well_formed_fields(header, parent_proposer_pub_key, is_prague1_active) ==
    IF is_prague1_active
    THEN validate_prague1_active(header, parent_proposer_pub_key)
    ELSE validate_prague1_inactive(header, parent_proposer_pub_key)

PayloadErr(e, steps) == [ok |-> FALSE, err |-> e, steps |-> steps, recovered |-> <<>>]

\* parse_berachain_block: the payload converted by try_into_block_with_sidecar
\* (which may refuse it), the sidecar's proposer key written into the header,
\* the block sealed with the hash of that header
parse_berachain_block(payload, sidecar) ==
    IF ~payload.converts THEN [ok |-> FALSE, err |-> "payload conversion"]
    ELSE LET berachain_header ==
                 [payload.header EXCEPT
                     !.prev_proposer_pubkey = sidecar.parent_proposer_pub_key]
         IN  [ok |-> TRUE, err |-> "",
              block |-> [header |-> berachain_header,
                         transactions |-> payload.transactions,
                         hash |-> hash_slow(berachain_header)]]

\* validate_hardfork_fields: reth's Shanghai, Cancun and Prague field checks
\* (their verdicts on the payload are the host's), then the Prague1 check
validate_hardfork_fields(spec, sealed_block, sidecar, reth) ==
    IF ~reth.shanghai THEN [ok |-> FALSE, err |-> "shanghai", steps |-> <<"shanghai">>]
    ELSE IF ~reth.cancun
    THEN [ok |-> FALSE, err |-> "cancun", steps |-> <<"shanghai", "cancun">>]
    ELSE IF ~reth.prague
    THEN [ok |-> FALSE, err |-> "prague", steps |-> <<"shanghai", "cancun", "prague">>]
    ELSE LET r == prague1_ensure_well_formed_fields(sealed_block.header,
                     sidecar.parent_proposer_pub_key,
                     is_prague1_active_at_timestamp(spec, sealed_block.header.timestamp))
         IN  [ok |-> r = "Ok", err |-> IF r = "Ok" THEN "" ELSE r,
              steps |-> <<"shanghai", "cancun", "prague", "prague1">>]

\* SealedBlock::try_recover: the signer of every transaction, or the first error
try_recover(sealed_block) ==
    IF \E i \in DOMAIN sealed_block.transactions :
          ~recover_signer(sealed_block.transactions[i], TRUE).ok
    THEN [ok |-> FALSE, senders |-> <<>>]
    ELSE [ok |-> TRUE,
          senders |-> [i \in DOMAIN sealed_block.transactions |->
                          recover_signer(sealed_block.transactions[i], TRUE).signer]]

\* the variant runs the field checks before it compares the block hash
ensure_well_formed_payload_FieldsBeforeHash(spec, payload, sidecar) ==
    LET expected_hash == payload.block_hash
        parsed == parse_berachain_block(payload, sidecar)
    IN  IF ~parsed.ok THEN PayloadErr(parsed.err, <<"parse">>)
        ELSE LET sealed_block == parsed.block
                 hf == validate_hardfork_fields(spec, sealed_block, sidecar, payload.reth)
             IN  IF ~hf.ok THEN PayloadErr(hf.err, <<"parse">> \o hf.steps)
                 ELSE IF expected_hash # sealed_block.hash
                 THEN PayloadErr("Block hash mismatch", <<"parse">> \o hf.steps \o <<"block_hash">>)
                 ELSE PayloadErr("pol", <<"parse">> \o hf.steps \o <<"block_hash", "pol">>)

\* PayloadValidator::ensure_well_formed_payload; steps lists the checks it ran
ensure_well_formed_payload(spec, payload, sidecar) ==
    LET expected_hash == payload.block_hash
        parsed == parse_berachain_block(payload, sidecar)
    IN  IF ~parsed.ok THEN PayloadErr(parsed.err, <<"parse">>)
        ELSE LET sealed_block == parsed.block
             IN  IF expected_hash # sealed_block.hash
                 THEN PayloadErr("Block hash mismatch", <<"parse", "block_hash">>)
                 ELSE LET hf == validate_hardfork_fields(spec, sealed_block, sidecar,
                                                         payload.reth)
                          s3 == <<"parse", "block_hash">> \o hf.steps
                      IN  IF ~hf.ok THEN PayloadErr(hf.err, s3)
                          ELSE LET pol == validate_berachain_specific_fields(spec,
                                              sealed_block.transactions,
                                              sealed_block.header.timestamp)
                               IN  IF ~pol.ok THEN PayloadErr(pol.err, s3 \o <<"pol">>)
                                   ELSE LET rec == try_recover(sealed_block)
                                            s5 == s3 \o <<"pol", "recover">>
                                        IN  IF ~rec.ok THEN PayloadErr("recovery", s5)
                                            ELSE [ok |-> TRUE, err |-> "", steps |-> s5,
                                                  recovered |->
                                                    <<[block |-> sealed_block,
                                                       senders |-> rec.senders]>>]

(***************************************************************************)
(* Claims about the payload validator alone (Spec).                        *)
(***************************************************************************)
\* C11: the validator's PoL check on a block with zero transactions passes
\* when Prague1 is inactive at the block's timestamp and fails, for the missing
\* PoL transaction, when Prague1 is active.
C11_EmptyBlockRule ==
    (ValidatorRan /\ blockTxs = <<>>) =>
        /\ ~Prague1ActiveInBlock => (valRet.ok /\ valRet.err = "")
        /\ Prague1ActiveInBlock =>
              /\ ~valRet.ok
              /\ valRet.err =
                    "Block must contain at least one PoL transaction after Prague1 hardfork"

\* reached: an empty block one second before the delayed activation passed
C11_Witness ==
    /\ ValidatorRan
    /\ blockTxs = <<>>
    /\ chainSpec.prague1_time = Prague1Late
    /\ block.timestamp = Prague1Late - 1
    /\ valRet.ok

(***************************************************************************)
(* SpecPayload: the payload validator on bounded payloads.                 *)
(***************************************************************************)
\* Longest transaction list of a modelled payload.
MaxPayloadTxs == 2

\* the header try_into_block_with_sidecar builds (no proposer key yet)
PayloadHeader(timestamp, requests_hash) ==
    [parent_hash |-> "h0", ommers_hash |-> "h1", beneficiary |-> "a0",
     state_root |-> "h2", transactions_root |-> "h3", receipts_root |-> "h4",
     logs_bloom |-> "b0", difficulty |-> 0, number |-> 1, gas_limit |-> 30000000,
     gas_used |-> 0, timestamp |-> timestamp, extra_data |-> [len |-> 0, bytes |-> ""],
     mix_hash |-> "h5", nonce |-> "n0",
     base_fee_per_gas |-> Some(BlockBaseFee), withdrawals_root |-> Some("h6"),
     blob_gas_used |-> Some(0), excess_blob_gas |-> Some(0),
     parent_beacon_block_root |-> Some("h7"), requests_hash |-> requests_hash,
     prev_proposer_pubkey |-> None]

OptionalKeys == {None} \cup {Some(k) : k \in Keys}

PayloadTxs ==
    {PolTxFields(BaseSpec, "K1", 1, BlockBaseFee),
     SignedEthTx("Eip1559", Signature(OtherAddress, TRUE, TRUE)),
     SignedEthTx("Legacy", Signature(OtherAddress, FALSE, TRUE))}

\* the hashes a payload may claim: of the header with the sidecar's key, of the
\* header without it, and of a header with another state root
ClaimedHashes(header, sidecar) ==
    {hash_slow([header EXCEPT !.prev_proposer_pubkey = sidecar.parent_proposer_pub_key]),
     hash_slow(header), hash_slow([header EXCEPT !.state_root = "h9"])}

PayloadArgs ==
    {[fn |-> "ensure_well_formed_payload",
      payload |-> [block_hash |-> bh, header |-> hd, transactions |-> txs,
                   converts |-> cv,
                   reth |-> [shanghai |-> f1, cancun |-> f2, prague |-> f3]],
      sidecar |-> sc] :
        hd \in {PayloadHeader(ts, Some("h8")) : ts \in {Prague1Late - 1, Prague1Late}},
        sc \in {[parent_proposer_pub_key |-> k] : k \in OptionalKeys},
        bh \in UNION {ClaimedHashes(PayloadHeader(ts, Some("h8")),
                                    [parent_proposer_pub_key |-> k]) :
                         ts \in {Prague1Late - 1, Prague1Late}, k \in OptionalKeys},
        txs \in SeqsUpTo(PayloadTxs, MaxPayloadTxs),
        cv \in BOOLEAN, f1 \in BOOLEAN, f2 \in BOOLEAN, f3 \in BOOLEAN}

Prague1FieldArgs ==
    {[fn |-> "prague1::ensure_well_formed_fields",
      header |-> [PayloadHeader(Prague1Late, Some("h8")) EXCEPT !.prev_proposer_pubkey = hk],
      parent_proposer_pub_key |-> k, is_prague1_active |-> a] :
        hk \in OptionalKeys, k \in OptionalKeys, a \in BOOLEAN}

InitPayload ==
    /\ IdleExecutor
    /\ chainSpec \in ChainSpecs
    /\ arg \in PayloadArgs \cup Prague1FieldArgs
    /\ result = NoArg

EnsureWellFormedPayload ==
    /\ arg.fn = "ensure_well_formed_payload"
    /\ result = NoArg
    /\ result' = [fn |-> arg.fn] @@
                 ensure_well_formed_payload(chainSpec, arg.payload, arg.sidecar)
    /\ UNCHANGED <<chainSpec, block, ctx, blockTxs, valRet, arg>>
    /\ UNCHANGED execVars

Prague1EnsureWellFormedFields ==
    /\ arg.fn = "prague1::ensure_well_formed_fields"
    /\ result = NoArg
    /\ result' = [fn |-> arg.fn,
                  ret |-> prague1_ensure_well_formed_fields(arg.header,
                             arg.parent_proposer_pub_key, arg.is_prague1_active)]
    /\ UNCHANGED <<chainSpec, block, ctx, blockTxs, valRet, arg>>
    /\ UNCHANGED execVars

NextPayload == EnsureWellFormedPayload \/ Prague1EnsureWellFormedFields

SpecPayload == InitPayload /\ [][NextPayload]_vars

\* C12: prague1::ensure_well_formed_fields returns Ok exactly when, with
\* Prague1 active, the sidecar key is present and the header's key equals it,
\* and, with Prague1 inactive, neither the sidecar nor the header has a key.
C12_Prague1FieldsOkIff ==
    (result # NoArg /\ arg.fn = "prague1::ensure_well_formed_fields") =>
        ((result.ret = "Ok") <=>
            IF arg.is_prague1_active
            THEN /\ arg.parent_proposer_pub_key.some
                 /\ arg.header.prev_proposer_pubkey.some
                 /\ arg.header.prev_proposer_pubkey.v = arg.parent_proposer_pub_key.v
            ELSE /\ ~arg.parent_proposer_pub_key.some
                 /\ ~arg.header.prev_proposer_pubkey.some)

\* reached: Prague1 active, both keys present and different, refused
C12_Witness ==
    /\ result # NoArg
    /\ arg.fn = "prague1::ensure_well_formed_fields"
    /\ arg.is_prague1_active
    /\ arg.parent_proposer_pub_key = Some("K1")
    /\ arg.header.prev_proposer_pubkey = Some("K2")
    /\ result.ret = "Prague1 active but parent proposer pubkey mismatch"

PayloadSteps == <<"parse", "block_hash", "shanghai", "cancun", "prague", "prague1",
                  "pol", "recover">>

\* whether each step, taken alone on the payload of the call, fails
PayloadStepFails ==
    LET p == arg.payload
        header == [p.header EXCEPT
                      !.prev_proposer_pubkey = arg.sidecar.parent_proposer_pub_key]
    IN  <<~p.converts,
          p.block_hash # hash_slow(header),
          ~p.reth.shanghai, ~p.reth.cancun, ~p.reth.prague,
          prague1_ensure_well_formed_fields(header, arg.sidecar.parent_proposer_pub_key,
              is_prague1_active_at_timestamp(chainSpec, header.timestamp)) # "Ok",
          ~validate_berachain_specific_fields(chainSpec, p.transactions,
                                              header.timestamp).ok,
          \E i \in DOMAIN p.transactions : ~recover_signer(p.transactions[i], TRUE).ok>>

FirstFailingStep ==
    IF \E i \in DOMAIN PayloadStepFails : PayloadStepFails[i]
    THEN SetMin({i \in DOMAIN PayloadStepFails : PayloadStepFails[i]})
    ELSE 0

PayloadCalled == result # NoArg /\ arg.fn = "ensure_well_formed_payload"

\* C13: ensure_well_formed_payload runs parse, block-hash check, Shanghai,
\* Cancun, Prague, Prague1 field checks, PoL-shape check and sender recovery
\* in that order and stops at the first step that fails: the steps it ran are
\* exactly those up to and including the first failing one, a wrong claimed
\* hash stops it before any field check, and it attempts recovery and returns
\* a recovered block only when every earlier step passed.
C13_PayloadStepOrder ==
    PayloadCalled =>
        LET f == FirstFailingStep
            last == IF f = 0 THEN Len(PayloadSteps) ELSE f
        IN  /\ result.steps = SubSeq(PayloadSteps, 1, last)
            /\ result.ok <=> (f = 0)
            /\ (f = 2) => result.err = "Block hash mismatch"
            /\ (f = 1) => result.err = "payload conversion"
            /\ (f = 7) => result.err =
                  validate_berachain_specific_fields(chainSpec, arg.payload.transactions,
                      arg.payload.header.timestamp).err
            /\ result.ok => /\ Len(result.recovered) = 1
                            /\ result.recovered[1].block.header.prev_proposer_pubkey =
                                   arg.sidecar.parent_proposer_pub_key
            /\ ~result.ok => result.recovered = <<>>

\* reached: a payload with a wrong claimed hash whose fields are also
\* ill-formed is refused for the hash
C13_Witness ==
    /\ PayloadCalled
    /\ PayloadStepFails[2]
    /\ PayloadStepFails[3]
    /\ PayloadStepFails[7]
    /\ result.err = "Block hash mismatch"
    /\ result.steps = <<"parse", "block_hash">>

(***************************************************************************)
(* Claims about what the executor has committed when a block fails (Spec). *)
(***************************************************************************)
RECURSIVE GasOfCommitted(_)
GasOfCommitted(cs) ==
    IF cs = <<>> THEN 0
    ELSE (IF Head(cs).ret.tag = "Some" THEN Head(cs).ret.gas ELSE 0) + GasOfCommitted(Tail(cs))

BlockFailed ==
    \/ preRet \notin {"none", "Ok"}
    \/ \E i \in DOMAIN calls : calls[i].ret.tag = "Err"

\* C14 as stated: whenever pre-execution or the sequencing of a transaction
\* has returned an error, no state change of the block's PoL system call or of
\* its transactions is committed to the executor's database.
C14_NothingCommittedOnError ==
    BlockFailed => \A k \in DOMAIN db : db[k].src \notin {"pol", "tx"}

\* C14 amended: the step that returns an error (or Ok(None)) commits nothing
\* of its own and appends no receipt: no transaction commit exists for a call
\* that did not return Ok(Some), no PoL commit exists when pre-execution
\* failed, there is one receipt per PoL or transaction commit, and the
\* transaction index and gas_used count only the calls that returned Ok(Some).
\* What earlier steps committed stays in the executor's database.
C14_FailingStepCommitsNothing ==
    /\ \A i \in DOMAIN calls :
          (calls[i].ret.tag # "Some" \/ IsPol(calls[i].tx)) =>
              \A k \in DOMAIN db : db[k] # Commit("tx", calls[i].pos)
    /\ (preRet \notin {"none", "Ok"}) =>
          (receipts = <<>> /\ \A k \in DOMAIN db : db[k].src # "pol")
    /\ Len(receipts) = Cardinality({k \in DOMAIN db : db[k].src \in {"pol", "tx"}})
    /\ transaction_index = Cardinality({i \in DOMAIN calls : calls[i].ret.tag = "Some"})
    /\ gas_used = GasOfCommitted(calls)
    /\ \A k \in DOMAIN db : db[k].src = "tx" =>
          \E i \in DOMAIN calls : calls[i].pos = db[k].pos /\ calls[i].ret.tag = "Some"

\* reached: the third transaction of a Prague1 block failed in the EVM after
\* the PoL system call and the second transaction were committed
C14_Witness ==
    /\ Len(calls) = 3
    /\ calls[3].ret.tag = "Err"
    /\ calls[3].ret.err = "EVM"
    /\ \E k \in DOMAIN db : db[k].src = "pol"
    /\ \E k \in DOMAIN db : db[k] = Commit("tx", 2)
    /\ Len(receipts) = 2

(***************************************************************************)
(* SpecHeader: RLP round trip of BerachainHeader.                          *)
(***************************************************************************)
\* headers with every combination of the seven optional trailing fields
Headers ==
    {[PayloadHeader(Prague1Late, rq) EXCEPT
         !.number = n, !.extra_data = xd, !.base_fee_per_gas = bf,
         !.withdrawals_root = wr, !.blob_gas_used = bg, !.excess_blob_gas = eg,
         !.parent_beacon_block_root = br, !.prev_proposer_pubkey = pk] :
        n \in {0, 300},
        xd \in {[len |-> 0, bytes |-> ""], [len |-> 32, bytes |-> "x0"]},
        bf \in {None, Some(7)}, wr \in {None, Some("h6")},
        bg \in {None, Some(0)}, eg \in {None, Some(131072)},
        br \in {None, Some("h7")}, rq \in {None, Some("h8")},
        pk \in {None, Some("K1")}}

OptionalFields(h) ==
    <<h.base_fee_per_gas, h.withdrawals_root, h.blob_gas_used, h.excess_blob_gas,
      h.parent_beacon_block_root, h.requests_hash, h.prev_proposer_pubkey>>

\* the optional fields present are the first ones of the encoding order, as in
\* the headers of successive forks
PrefixClosed(h) ==
    \A i, j \in DOMAIN OptionalFields(h) :
        (i < j /\ OptionalFields(h)[j].some) => OptionalFields(h)[i].some

\* buffers for the decoder: the encoding of a header with the declared payload
\* length off by delta, with one more 32-byte string after the fields, or
\* with a string header in place of the list header
DecodeArgs ==
    {[fn |-> "header_decode", header |-> h, delta |-> d, extra |-> x, list |-> l,
      buf |-> [list |-> l,
               payload_length |-> header_encode(h).payload_length + d
                                  + (IF x THEN EncBytes(32, "h9").size ELSE 0),
               items |-> header_encode(h).items
                         \o (IF x THEN <<EncBytes(32, "h9")>> ELSE <<>>)]] :
        h \in {g \in Headers : PrefixClosed(g) /\ g.number = 300},
        d \in {-1, 0, 1}, x \in BOOLEAN, l \in BOOLEAN}

InitHeader ==
    /\ IdleExecutor
    /\ chainSpec = BaseSpec
    /\ arg \in {[fn |-> "header_round_trip", header |-> h] : h \in Headers}
                \cup DecodeArgs
    /\ result = NoArg

\* encode the header, decode the bytes, encode what was decoded
HeaderRoundTrip ==
    /\ arg.fn = "header_round_trip"
    /\ result = NoArg
    /\ LET encoded == header_encode(arg.header)
           decoded == header_decode(encoded)
       IN  result' = [fn |-> arg.fn, encoded |-> encoded, decoded |-> decoded,
                      reencoded |-> IF decoded.ok THEN <<header_encode(decoded.header)>>
                                    ELSE <<>>]
    /\ UNCHANGED <<chainSpec, block, ctx, blockTxs, valRet, arg>>
    /\ UNCHANGED execVars

\* decode bytes that no encoder of this crate wrote
HeaderDecode ==
    /\ arg.fn = "header_decode"
    /\ result = NoArg
    /\ result' = [fn |-> arg.fn, decoded |-> header_decode(arg.buf)]
    /\ UNCHANGED <<chainSpec, block, ctx, blockTxs, valRet, arg>>
    /\ UNCHANGED execVars

NextHeader == HeaderRoundTrip \/ HeaderDecode

SpecHeader == InitHeader /\ [][NextHeader]_vars

RoundTripped == result # NoArg /\ arg.fn = "header_round_trip"

\* the round trip gave back the header, the bytes and the hash
RoundTripExact ==
    /\ result.decoded.ok
    /\ result.decoded.header = arg.header
    /\ result.reencoded = <<result.encoded>>
    /\ hash_slow(result.decoded.header) = hash_slow(arg.header)

EarlierOptionalsPresent(h) ==
    /\ h.base_fee_per_gas.some
    /\ h.withdrawals_root.some
    /\ h.blob_gas_used.some
    /\ h.excess_blob_gas.some
    /\ h.parent_beacon_block_root.some
    /\ h.requests_hash.some

\* C15 as stated: for every header whose prev_proposer_pubkey is set, whatever
\* other optional trailing fields are present, decoding its encoding succeeds
\* with an equal header, and re-encoding gives the same bytes and hash.
C15_RoundTripAnyCombination ==
    (RoundTripped /\ arg.header.prev_proposer_pubkey.some) => RoundTripExact

\* C15 amended: for a header whose prev_proposer_pubkey is set the round trip
\* is exact when the six optional fields before it are all present, and
\* decoding the encoding fails when any of them is absent.
C15_RoundTripWhenEarlierFieldsPresent ==
    (RoundTripped /\ arg.header.prev_proposer_pubkey.some) =>
        IF EarlierOptionalsPresent(arg.header)
        THEN RoundTripExact
        ELSE ~result.decoded.ok

\* reached: a header with all seven optional fields round-tripped
C15_Witness ==
    /\ RoundTripped
    /\ arg.header.prev_proposer_pubkey = Some("K1")
    /\ EarlierOptionalsPresent(arg.header)
    /\ result.decoded.ok
    /\ result.decoded.header.prev_proposer_pubkey = Some("K1")

(***************************************************************************)
(* Storage (Compact) encoding of the transaction type and the envelope.    *)
(***************************************************************************)
COMPACT_IDENTIFIER_LEGACY == 0
COMPACT_IDENTIFIER_EIP2930 == 1
COMPACT_IDENTIFIER_EIP1559 == 2
COMPACT_EXTENDED_IDENTIFIER_FLAG == 3
EIP4844_TX_TYPE_ID == 3
EIP7702_TX_TYPE_ID == 4

EthTxTypes == {"Legacy", "Eip2930", "Eip1559", "Eip4844", "Eip7702"}
\* BerachainTxType: Ethereum(TxType) | Berachain
BerachainTxTypes == EthTxTypes \cup {"Berachain"}

Compacted(identifier, bytes) == [identifier |-> identifier, bytes |-> bytes]

\* Compact::to_compact for alloy's TxType, to which the Ethereum arm delegates
eth_txtype_to_compact(ty) ==
    CASE ty = "Legacy" -> Compacted(COMPACT_IDENTIFIER_LEGACY, <<>>)
      [] ty = "Eip2930" -> Compacted(COMPACT_IDENTIFIER_EIP2930, <<>>)
      [] ty = "Eip1559" -> Compacted(COMPACT_IDENTIFIER_EIP1559, <<>>)
      [] ty = "Eip4844" -> Compacted(COMPACT_EXTENDED_IDENTIFIER_FLAG, <<EIP4844_TX_TYPE_ID>>)
      [] ty = "Eip7702" -> Compacted(COMPACT_EXTENDED_IDENTIFIER_FLAG, <<EIP7702_TX_TYPE_ID>>)

\* the variant gives the PoL type a direct identifier and writes no byte
\* Compact::to_compact for BerachainTxType
txtype_to_compact(ty) ==
    IF ty = "Berachain" THEN Compacted(COMPACT_EXTENDED_IDENTIFIER_FLAG, <<POL_TX_TYPE>>)
    ELSE eth_txtype_to_compact(ty)

TypeDecoded(ty, buf) == [panic |-> FALSE, tx_type |-> ty, buf |-> buf]
TypePanic(buf) == [panic |-> TRUE, tx_type |-> "none", buf |-> buf]

\* variant: any unknown extended identifier is taken for the PoL type
txtype_from_compact_UnknownIsPol(buf, identifier) ==
    CASE identifier = COMPACT_IDENTIFIER_LEGACY -> TypeDecoded("Legacy", buf)
      [] identifier = COMPACT_IDENTIFIER_EIP2930 -> TypeDecoded("Eip2930", buf)
      [] identifier = COMPACT_IDENTIFIER_EIP1559 -> TypeDecoded("Eip1559", buf)
      [] identifier = COMPACT_EXTENDED_IDENTIFIER_FLAG ->
            IF buf = <<>> THEN TypePanic(buf)
            ELSE LET extended_identifier == Head(buf)
                 IN  CASE extended_identifier = POL_TX_TYPE ->
                              TypeDecoded("Berachain", Tail(buf))
                       [] extended_identifier = EIP4844_TX_TYPE_ID ->
                              TypeDecoded("Eip4844", Tail(buf))
                       [] extended_identifier = EIP7702_TX_TYPE_ID ->
                              TypeDecoded("Eip7702", Tail(buf))
                       [] OTHER -> TypeDecoded("Berachain", Tail(buf))
      [] OTHER -> TypePanic(buf)

\* Compact::from_compact for BerachainTxType (get_u8 on an empty buffer panics)
txtype_from_compact(buf, identifier) ==
    CASE identifier = COMPACT_IDENTIFIER_LEGACY -> TypeDecoded("Legacy", buf)
      [] identifier = COMPACT_IDENTIFIER_EIP2930 -> TypeDecoded("Eip2930", buf)
      [] identifier = COMPACT_IDENTIFIER_EIP1559 -> TypeDecoded("Eip1559", buf)
      [] identifier = COMPACT_EXTENDED_IDENTIFIER_FLAG ->
            IF buf = <<>> THEN TypePanic(buf)
            ELSE LET extended_identifier == Head(buf)
                 IN  CASE extended_identifier = POL_TX_TYPE ->
                              TypeDecoded("Berachain", Tail(buf))
                       [] extended_identifier = EIP4844_TX_TYPE_ID ->
                              TypeDecoded("Eip4844", Tail(buf))
                       [] extended_identifier = EIP7702_TX_TYPE_ID ->
                              TypeDecoded("Eip7702", Tail(buf))
                       [] OTHER -> TypePanic(Tail(buf))
      [] OTHER -> TypePanic(buf)

\* an Ethereum envelope for storage: its kind, the fields of the transaction,
\* the length of its input, its signature, and (EIP-4844) whether it carries
\* a blob sidecar
StoredEthTx(ty, nonce, input_len, y_parity, sidecar) ==
    [ty |-> ty, nonce |-> nonce, input_len |-> input_len,
     signature |-> [r |-> 1, s |-> 2, y_parity |-> y_parity], sidecar |-> sidecar]

\* POL_SIGNATURE: Signature::new(0, 0, false)
POL_SIGNATURE == [r |-> 0, s |-> 0, y_parity |-> FALSE]

\* Envelope::signature
envelope_signature(env) == IF IsPol(env) THEN POL_SIGNATURE ELSE env.signature

\* Transaction::input().len(); the PoL call data is the selector, the head
\* offset, the length word and the key padded to two words
envelope_input_len(env) ==
    IF IsPol(env) THEN 4 + AbiHeadOffset + 32 + 64 ELSE env.input_len

\* ToTxCompact for the base Ethereum envelope (reth): the transaction's own
\* Compact form; the base envelope holds no blob sidecar
eth_to_tx_compact(env) == [eth |-> <<env.nonce, env.input_len>>]

\* ToTxCompact for BerachainTxEnvelope: the transaction's own Compact form,
\* which holds neither its type nor its signature nor a blob sidecar
to_tx_compact(env) ==
    IF IsPol(env)
    THEN [pol |-> <<env.chain_id, env.from, env.to, env.nonce, env.gas_limit,
                    env.gas_price, env.input>>]
    ELSE [eth |-> <<env.nonce, env.input_len>>]

\* the variant takes every extended-identifier type for the PoL type
from_tx_compact_ExtendedIsPol(chunk, tx_type, signature) ==
    IF tx_type \in {"Berachain", "Eip4844", "Eip7702"}
    THEN [ty |-> "Berachain", chain_id |-> 0, from |-> SYSTEM_ADDRESS, to |-> SYSTEM_ADDRESS,
          nonce |-> 0, gas_limit |-> 0, gas_price |-> 0, input |-> <<>>]
    ELSE StoredEthTx(tx_type, chunk.eth[1], chunk.eth[2], signature.y_parity, FALSE)

\* FromTxCompact for BerachainTxEnvelope
from_tx_compact(chunk, tx_type, signature) ==
    IF tx_type = "Berachain"
    THEN [ty |-> "Berachain", chain_id |-> chunk.pol[1], from |-> chunk.pol[2],
          to |-> chunk.pol[3], nonce |-> chunk.pol[4], gas_limit |-> chunk.pol[5],
          gas_price |-> chunk.pol[6], input |-> chunk.pol[7]]
    ELSE [ty |-> tx_type, nonce |-> chunk.eth[1], input_len |-> chunk.eth[2],
          signature |-> signature, sidecar |-> FALSE]

Bytes(bs) == [i \in DOMAIN bs |-> [byte |-> bs[i]]]

\* CompactEnvelope::to_compact, given the compacted type: the flags byte
\* (signature bit, two type bits, zstd bit), the signature, then the type byte
\* if any and the transaction, compressed together when the input is 32 bytes
\* or longer
CompactEnvelope_to_compact(env, ty, chunk) ==
    LET sig == envelope_signature(env)
        sig_bit == IF sig.y_parity THEN 1 ELSE 0
        zstd_bit == IF envelope_input_len(env) >= 32 THEN 1 ELSE 0
        body == Bytes(ty.bytes) \o <<chunk>>
        flags == sig_bit + 2 * ty.identifier + 8 * zstd_bit
        buf == <<[byte |-> flags], [r |-> sig.r, s |-> sig.s]>>
               \o (IF zstd_bit = 1 THEN <<[zstd |-> body]>> ELSE body)
    IN  [len |-> Len(buf), buf |-> buf]

\* Compact::to_compact for BerachainTxEnvelope
envelope_to_compact(env) ==
    CompactEnvelope_to_compact(env, txtype_to_compact(env.ty), to_tx_compact(env))

\* Compact::to_compact for the base Ethereum envelope
eth_envelope_to_compact(env) ==
    CompactEnvelope_to_compact(env, eth_txtype_to_compact(env.ty), eth_to_tx_compact(env))

\* Compact::from_compact for BerachainTxEnvelope (CompactEnvelope::from_compact)
envelope_from_compact(buf) ==
    LET flags == buf[1].byte
        sig_bit == flags % 2
        tx_bits == (flags \div 2) % 4
        zstd_bit == flags \div 8
        signature == [r |-> buf[2].r, s |-> buf[2].s, y_parity |-> sig_bit = 1]
        body == IF zstd_bit # 0 THEN buf[3].zstd ELSE SubSeq(buf, 3, Len(buf))
        ext == IF tx_bits = COMPACT_EXTENDED_IDENTIFIER_FLAG THEN <<body[1].byte>> ELSE <<>>
        t == txtype_from_compact(ext, tx_bits)
        chunk == body[Len(ext) + 1]
    IN  IF t.panic THEN [panic |-> TRUE]
        ELSE [panic |-> FALSE, tx |-> from_tx_compact(chunk, t.tx_type, signature)]

(***************************************************************************)
(* SpecTx: storage encoding and signer recovery on bounded transactions.   *)
(***************************************************************************)
StoredEthTxs ==
    {StoredEthTx(ty, n, il, yp, sc) :
        ty \in EthTxTypes, n \in {0, 5}, il \in {0, 32}, yp \in BOOLEAN, sc \in BOOLEAN}

\* a blob sidecar exists only on EIP-4844 transactions
WellFormedStored(env) == env.sidecar => env.ty = "Eip4844"

StoredPolTxs ==
    {[PolTxFields(sp, k, n, BlockBaseFee) EXCEPT !.from = f] :
        sp \in PolSpecs, k \in Keys, n \in {1, 2}, f \in {SYSTEM_ADDRESS, OtherAddress}}

TxArgs ==
    {[fn |-> "txtype_compact", ty |-> ty] : ty \in BerachainTxTypes}
    \cup {[fn |-> "txtype_from_compact", identifier |-> id, buf |-> b] :
             id \in 0..4,
             b \in {<<>>, <<EIP4844_TX_TYPE_ID>>, <<EIP7702_TX_TYPE_ID>>,
                    <<POL_TX_TYPE>>, <<5>>}}
    \cup {[fn |-> "envelope_compact", tx |-> e] :
             e \in {x \in StoredEthTxs : WellFormedStored(x)} \cup StoredPolTxs}
    \cup {[fn |-> "recover_signer", tx |-> e, checked |-> c, on |-> o] :
             e \in StoredPolTxs, c \in BOOLEAN, o \in {"PoLTx", "BerachainTxEnvelope"}}
    \cup {[fn |-> "recover_signer", tx |-> e, checked |-> c, on |-> "BerachainTxEnvelope"] :
             e \in {SignedEthTx("Eip1559", Signature(OtherAddress, v, l)) :
                       v \in BOOLEAN, l \in BOOLEAN},
             c \in BOOLEAN}

InitTx ==
    /\ IdleExecutor
    /\ chainSpec = BaseSpec
    /\ arg \in TxArgs
    /\ result = NoArg

\* to_compact of a type, then from_compact of what it wrote; for an Ethereum
\* type also from_compact of what the base Ethereum type encoder writes
TxTypeCompact ==
    /\ arg.fn = "txtype_compact"
    /\ result = NoArg
    /\ LET c == txtype_to_compact(arg.ty)
           e == IF arg.ty \in EthTxTypes THEN <<eth_txtype_to_compact(arg.ty)>> ELSE <<>>
       IN  result' = [fn |-> arg.fn, compact |-> c,
                      decoded |-> txtype_from_compact(c.bytes, c.identifier),
                      eth |-> e,
                      eth_decoded |-> [i \in DOMAIN e |->
                                          txtype_from_compact(e[i].bytes, e[i].identifier)]]
    /\ UNCHANGED <<chainSpec, block, ctx, blockTxs, valRet, arg>>
    /\ UNCHANGED execVars

TxTypeFromCompact ==
    /\ arg.fn = "txtype_from_compact"
    /\ result = NoArg
    /\ result' = [fn |-> arg.fn, decoded |-> txtype_from_compact(arg.buf, arg.identifier)]
    /\ UNCHANGED <<chainSpec, block, ctx, blockTxs, valRet, arg>>
    /\ UNCHANGED execVars

\* to_compact of an envelope and from_compact of the bytes; for an Ethereum
\* transaction without sidecar also the base Ethereum encoding and its
\* decoding by the Berachain decoder
EnvelopeCompact ==
    /\ arg.fn = "envelope_compact"
    /\ result = NoArg
    /\ LET c == envelope_to_compact(arg.tx)
           e == IF ~IsPol(arg.tx) /\ ~arg.tx.sidecar
                THEN <<eth_envelope_to_compact(arg.tx)>> ELSE <<>>
       IN  result' = [fn |-> arg.fn, compact |-> c,
                      decoded |-> envelope_from_compact(c.buf),
                      eth |-> e,
                      eth_decoded |-> [i \in DOMAIN e |-> envelope_from_compact(e[i].buf)]]
    /\ UNCHANGED <<chainSpec, block, ctx, blockTxs, valRet, arg>>
    /\ UNCHANGED execVars

RecoverSigner ==
    /\ arg.fn = "recover_signer"
    /\ result = NoArg
    /\ result' = [fn |-> arg.fn] @@
                 (IF arg.on = "PoLTx" THEN PoLTx_recover_signer(arg.tx, arg.checked)
                  ELSE recover_signer(arg.tx, arg.checked))
    /\ UNCHANGED <<chainSpec, block, ctx, blockTxs, valRet, arg>>
    /\ UNCHANGED execVars

NextTx == TxTypeCompact \/ TxTypeFromCompact \/ EnvelopeCompact \/ RecoverSigner

SpecTx == InitTx /\ [][NextTx]_vars

TypeCompacted == result # NoArg /\ arg.fn = "txtype_compact"

\* C17: to_compact of Legacy, EIP-2930 and EIP-1559 returns the direct
\* identifiers 0, 1, 2 and writes no byte; EIP-4844, EIP-7702 and PoL return
\* the extended-identifier flag and write exactly one byte, their type (126
\* for PoL); from_compact of what to_compact gave returns the type; what the
\* base Ethereum type encoder gives decodes to the same Ethereum type; and
\* from_compact returns PoL only for the flag followed by byte 126.
C17_TxTypeCompact ==
    /\ TypeCompacted =>
          /\ (arg.ty = "Legacy") => result.compact = Compacted(0, <<>>)
          /\ (arg.ty = "Eip2930") => result.compact = Compacted(1, <<>>)
          /\ (arg.ty = "Eip1559") => result.compact = Compacted(2, <<>>)
          /\ (arg.ty = "Eip4844") => result.compact = Compacted(3, <<3>>)
          /\ (arg.ty = "Eip7702") => result.compact = Compacted(3, <<4>>)
          /\ (arg.ty = "Berachain") => result.compact = Compacted(3, <<126>>)
          /\ ~result.decoded.panic
          /\ result.decoded.tx_type = arg.ty
          /\ result.decoded.buf = <<>>
          /\ \A i \in DOMAIN result.eth_decoded :
                /\ result.eth[i] = result.compact
                /\ ~result.eth_decoded[i].panic
                /\ result.eth_decoded[i].tx_type = arg.ty
                /\ result.eth_decoded[i].tx_type # "Berachain"
    /\ (result # NoArg /\ arg.fn = "txtype_from_compact") =>
          ((result.decoded.tx_type = "Berachain") <=>
              (arg.identifier = 3 /\ arg.buf = <<126>>))

\* reached: the PoL type went through the extended identifier and came back
C17_Witness ==
    /\ TypeCompacted
    /\ arg.ty = "Berachain"
    /\ result.compact.identifier = COMPACT_EXTENDED_IDENTIFIER_FLAG
    /\ result.compact.bytes = <<POL_TX_TYPE>>
    /\ result.decoded.tx_type = "Berachain"

EnvelopeCompacted == result # NoArg /\ arg.fn = "envelope_compact"

\* C16: for an Ethereum transaction of each of the five kinds the Berachain
\* envelope's compact encoding equals the base Ethereum envelope's, bytes and
\* length, and the Berachain decoder turns the base encoding into the
\* Ethereum variant of the same kind with the same fields and signature,
\* never into the PoL variant; a PoL transaction round-trips to a PoL
\* variant with the same fields.
C16_CompactCompatible ==
    EnvelopeCompacted =>
        /\ \A i \in DOMAIN result.eth :
              /\ result.eth[i].buf = result.compact.buf
              /\ result.eth[i].len = result.compact.len
              /\ ~result.eth_decoded[i].panic
              /\ result.eth_decoded[i].tx.ty = arg.tx.ty
              /\ result.eth_decoded[i].tx.ty # "Berachain"
              /\ result.eth_decoded[i].tx = arg.tx
              /\ result.decoded = result.eth_decoded[i]
        /\ IsPol(arg.tx) =>
              /\ ~result.decoded.panic
              /\ result.decoded.tx.ty = "Berachain"
              /\ result.decoded.tx = arg.tx

\* reached: an EIP-7702 transaction with a long input (compressed, extended
\* identifier, odd parity) was stored by the base encoder and read back
C16_Witness ==
    /\ EnvelopeCompacted
    /\ arg.tx.ty = "Eip7702"
    /\ arg.tx.input_len = 32
    /\ arg.tx.signature.y_parity
    /\ Len(result.eth) = 1
    /\ result.eth_decoded[1].tx = arg.tx

\* C18: recover_signer and recover_signer_unchecked of a PoL transaction, on
\* PoLTx or on the envelope, return Ok(SYSTEM_ADDRESS) whatever the
\* transaction's from field holds.
C18_PolSignerIsSystemAddress ==
    (result # NoArg /\ arg.fn = "recover_signer" /\ IsPol(arg.tx)) =>
        /\ result.ok
        /\ result.signer = SYSTEM_ADDRESS

\* reached: checked recovery on the envelope of a PoL transaction that names
\* another sender
C18_Witness ==
    /\ result # NoArg
    /\ arg.fn = "recover_signer"
    /\ IsPol(arg.tx)
    /\ arg.tx.from = OtherAddress
    /\ arg.checked
    /\ arg.on = "BerachainTxEnvelope"
    /\ result.signer = SYSTEM_ADDRESS

\* ---------------------------------------------------------------------
\* Chain spec construction from genesis (chainspec/mod.rs, genesis/mod.rs)
\* ---------------------------------------------------------------------

\* the pre-Cancun fork blocks in the order the constructor checks them
PreCancunForks ==
    <<"Homestead", "Dao", "Tangerine", "SpuriousDragon", "Byzantium",
      "Constantinople", "Petersburg", "Istanbul", "MuirGlacier", "Berlin",
      "London", "ArrowGlacier", "GrayGlacier">>

\* BerachainGenesisConfig::default(): Prague1 at time 0, denominator 48
BerachainGenesisConfig_default ==
    [prague1 |-> [time |-> 0, base_fee_change_denominator |-> BerachainDenominator]]

\* TryFrom<&OtherFields>: the "berachain" entry absent, not deserializable,
\* or a configuration
BerachainGenesisConfig_try_from(extra_fields) ==
    IF extra_fields.berachain = "missing"
    THEN [ok |-> FALSE, err |-> "missing field berachain"]
    ELSE IF extra_fields.berachain = "malformed"
    THEN [ok |-> FALSE, err |-> "serde error"]
    ELSE [ok |-> TRUE, cfg |-> extra_fields.cfg]

\* try_from(..).unwrap_or_else(|e| { warn!(..); default() })
berachain_genesis_config(genesis) ==
    LET r == BerachainGenesisConfig_try_from(genesis.extra_fields)
    IN  IF r.ok THEN [cfg |-> r.cfg, warned |-> FALSE]
        ELSE [cfg |-> BerachainGenesisConfig_default, warned |-> TRUE]

Panic(check, hardfork, got) ==
    [panic |-> TRUE, check |-> check, hardfork |-> hardfork, got |-> got]

\* index of the first pre-Cancun fork configured at a block other than 0,
\* 0 when there is none
RECURSIVE FirstLateFork(_, _)
FirstLateFork(blocks, i) ==
    IF i > Len(PreCancunForks) THEN 0
    ELSE IF blocks[i].some /\ blocks[i].v # 0 THEN i
    ELSE FirstLateFork(blocks, i + 1)

prague1_before_prague_AtOrBefore(prague_time, prague1_time) ==
    prague_time.some /\ prague1_time <= prague_time.v

\* (Some(prague_time), prague1_time) if prague1_time < prague_time
prague1_before_prague(prague_time, prague1_time) ==
    prague_time.some /\ prague1_time < prague_time.v

\* the hardfork schedule and base fee parameters of a constructed spec
built_chain_spec(genesis, cfg) ==
    [panic |-> FALSE,
     spec |-> [prague_time |-> genesis.prague_time,
               prague1_time |-> cfg.prague1.time,
               base_fee_change_denominator |-> cfg.prague1.base_fee_change_denominator,
               base_fee_params |-> IF cfg.prague1.time = 0 THEN "Constant" ELSE "Variable"]]

\* From<Genesis> for BerachainChainSpec: the checks in the order of the code
chain_spec_from_genesis(genesis) ==
    LET loaded == berachain_genesis_config(genesis)
        cfg == loaded.cfg
        late == FirstLateFork(genesis.pre_cancun_blocks, 1)
        r == IF genesis.cancun_time # Some(0)
             THEN Panic("cancun_at_genesis", "Cancun", genesis.cancun_time)
             ELSE IF late # 0
             THEN Panic("pre_cancun_at_genesis", PreCancunForks[late],
                        genesis.pre_cancun_blocks[late])
             ELSE IF genesis.shanghai_time.some /\ genesis.shanghai_time.v # 0
             THEN Panic("shanghai_at_genesis", "Shanghai", genesis.shanghai_time)
             ELSE IF prague1_before_prague(genesis.prague_time, cfg.prague1.time)
             THEN Panic("prague1_after_prague", "Prague1", Some(cfg.prague1.time))
             ELSE IF genesis.terminal_total_difficulty.some
                     /\ genesis.terminal_total_difficulty.v # 0
             THEN Panic("ttd_zero", "Paris", genesis.terminal_total_difficulty)
             ELSE IF ~genesis.terminal_total_difficulty.some
             THEN Panic("ttd_set", "Paris", None)
             ELSE IF genesis.merge_netsplit_block.some /\ genesis.merge_netsplit_block.v # 0
             THEN Panic("merge_at_genesis", "Paris", genesis.merge_netsplit_block)
             ELSE built_chain_spec(genesis, cfg)
    IN  r @@ [warned |-> loaded.warned]

\* --- specification: one genesis, one construction ---

Unconfigured == [i \in DOMAIN PreCancunForks |-> None]
AtGenesis == [i \in DOMAIN PreCancunForks |-> Some(0)]

\* fork block lists: none configured, all at 0, one fork late (the first, a
\* middle one, the last), and two forks late with different blocks
PreCancunBlocks ==
    {Unconfigured, AtGenesis,
     [Unconfigured EXCEPT ![1] = Some(5)],
     [AtGenesis EXCEPT ![11] = Some(5)],
     [Unconfigured EXCEPT ![13] = Some(5)],
     [AtGenesis EXCEPT ![2] = Some(7), ![10] = Some(5)]}

ExtraFields ==
    {[berachain |-> "missing"], [berachain |-> "malformed"]}
    \cup {[berachain |-> "present",
           cfg |-> [prague1 |-> [time |-> t, base_fee_change_denominator |-> d]]] :
             t \in {0, Prague1Late, 2 * Prague1Late}, d \in {BerachainDenominator, 100}}

Geneses ==
    {[cancun_time |-> c, pre_cancun_blocks |-> p, shanghai_time |-> s,
      prague_time |-> pr, terminal_total_difficulty |-> t,
      merge_netsplit_block |-> m, extra_fields |-> e] :
        c \in {None, Some(0), Some(100)},
        p \in PreCancunBlocks,
        s \in {None, Some(0), Some(100)},
        pr \in {None, Some(0), Some(Prague1Late), Some(2 * Prague1Late)},
        t \in {None, Some(0), Some(1000)},
        m \in {None, Some(0), Some(5)},
        e \in ExtraFields}

InitGenesis ==
    /\ IdleExecutor
    /\ chainSpec = BaseSpec
    /\ arg \in {[fn |-> "from_genesis", genesis |-> g] : g \in Geneses}
    /\ result = NoArg

\* BerachainChainSpec::from(genesis)
FromGenesis ==
    /\ arg.fn = "from_genesis"
    /\ result = NoArg
    /\ result' = [fn |-> arg.fn] @@ chain_spec_from_genesis(arg.genesis)
    /\ UNCHANGED <<chainSpec, block, ctx, blockTxs, valRet, arg>>
    /\ UNCHANGED execVars

NextGenesis == FromGenesis

SpecGenesis == InitGenesis /\ [][NextGenesis]_vars

\* --- claims about chain spec construction ---

GenesisBuilt == result # NoArg /\ arg.fn = "from_genesis"

\* the Prague1 time the construction works with: the configured one, or the
\* default when the extension block is missing or malformed
EffectivePrague1Time(g) ==
    IF g.extra_fields.berachain = "present" THEN g.extra_fields.cfg.prague1.time
    ELSE 0

\* the six bootstrap invariants in the order of the claim, TRUE = violated
BootstrapViolations(g) ==
    <<g.cancun_time # Some(0),
      \E i \in DOMAIN g.pre_cancun_blocks :
          g.pre_cancun_blocks[i] \notin {None, Some(0)},
      g.shanghai_time \notin {None, Some(0)},
      g.prague_time # None /\ EffectivePrague1Time(g) < g.prague_time.v,
      g.terminal_total_difficulty # Some(0),
      g.merge_netsplit_block \notin {None, Some(0)}>>

ReportedBy ==
    <<{"cancun_at_genesis"}, {"pre_cancun_at_genesis"}, {"shanghai_at_genesis"},
      {"prague1_after_prague"}, {"ttd_zero", "ttd_set"}, {"merge_at_genesis"}>>

\* C19: construction panics exactly when one of the six bootstrap invariants
\* is violated, and the panic reports the first violated one in the order
\* Cancun, pre-Cancun blocks, Shanghai, Prague1 before Prague, terminal total
\* difficulty, merge netsplit; otherwise it succeeds, a Prague1 time equal to
\* the Prague time included.
C19_PanicsOnFirstViolatedInvariant ==
    GenesisBuilt =>
        LET v == BootstrapViolations(arg.genesis)
            violated == {i \in DOMAIN v : v[i]}
        IN  /\ result.panic <=> violated # {}
            /\ result.panic =>
                  \E i \in violated :
                      /\ \A j \in violated : i <= j
                      /\ result.check \in ReportedBy[i]
            /\ (violated = {} /\ arg.genesis.prague_time = Some(Prague1Late)
                /\ EffectivePrague1Time(arg.genesis) = Prague1Late) =>
                  /\ ~result.panic
                  /\ result.spec.prague1_time = Prague1Late
                  /\ result.spec.prague_time = Some(Prague1Late)

\* reached: Shanghai late, Prague1 before Prague and no terminal total
\* difficulty at once; the panic names Shanghai
C19_Witness ==
    /\ GenesisBuilt
    /\ arg.genesis.cancun_time = Some(0)
    /\ arg.genesis.shanghai_time = Some(100)
    /\ arg.genesis.prague_time = Some(2 * Prague1Late)
    /\ EffectivePrague1Time(arg.genesis) = Prague1Late
    /\ arg.genesis.terminal_total_difficulty = None
    /\ result.panic
    /\ result.check = "shanghai_at_genesis"

\* C20: with the berachain extension block missing or malformed, every
\* genesis that satisfies the other bootstrap invariants (Cancun, pre-Cancun
\* blocks, Shanghai, terminal total difficulty, merge netsplit), whatever its
\* Prague time, is built without a panic, with Prague1 at time 0 and base
\* fee change denominator 48.
C20_MissingConfigNeverCrashes ==
    (/\ GenesisBuilt
     /\ arg.genesis.extra_fields.berachain \in {"missing", "malformed"}
     /\ LET v == BootstrapViolations(arg.genesis)
        IN  \A i \in DOMAIN v \ {4} : ~v[i]) =>
        /\ ~result.panic
        /\ result.warned
        /\ result.spec.prague1_time = 0
        /\ base_fee_params_at_timestamp(result.spec, 0).max_change_denominator
              = BerachainDenominator

\* ---------------------------------------------------------------------
\* SpecParams: fee parameters and fork activation of a built chain spec
\* ---------------------------------------------------------------------

\* geneses that pass every check but, possibly, the Prague1 one
ParamGeneses ==
    {g \in Geneses :
        /\ g.cancun_time = Some(0)
        /\ g.pre_cancun_blocks \in {Unconfigured, AtGenesis}
        /\ g.shanghai_time \in {None, Some(0)}
        /\ g.terminal_total_difficulty = Some(0)
        /\ g.merge_netsplit_block = None}

ParamTimestamps ==
    {0, 1, Prague1Late - 1, Prague1Late, Prague1Late + 1, 2 * Prague1Late - 1,
     2 * Prague1Late, 2 * Prague1Late + 1}

InitParams ==
    /\ IdleExecutor
    /\ chainSpec = BaseSpec
    /\ arg \in {[fn |-> "params_at_timestamp", genesis |-> g, timestamp |-> t] :
                   g \in ParamGeneses, t \in ParamTimestamps}
    /\ result = NoArg

\* BerachainChainSpec::from(genesis), then base_fee_params_at_timestamp and
\* is_prague1_active_at_timestamp on the spec it built
ParamsAtTimestamp ==
    /\ arg.fn = "params_at_timestamp"
    /\ result = NoArg
    /\ LET built == chain_spec_from_genesis(arg.genesis)
       IN  result' =
              IF built.panic THEN [fn |-> arg.fn, panic |-> TRUE]
              ELSE [fn |-> arg.fn, panic |-> FALSE, spec |-> built.spec,
                    params |-> base_fee_params_at_timestamp(built.spec, arg.timestamp),
                    prague1_active |->
                        is_prague1_active_at_timestamp(built.spec, arg.timestamp)]
    /\ UNCHANGED <<chainSpec, block, ctx, blockTxs, valRet, arg>>
    /\ UNCHANGED execVars

NextParams == ParamsAtTimestamp

SpecParams == InitParams /\ [][NextParams]_vars

ParamsResolved == result # NoArg /\ arg.fn = "params_at_timestamp" /\ ~result.panic

ConfiguredDenominator(g) ==
    IF g.extra_fields.berachain = "present"
    THEN g.extra_fields.cfg.prague1.base_fee_change_denominator
    ELSE BerachainDenominator

\* C21: on a chain spec built from genesis the fee parameters at t are
\* (configured denominator, 2) for every t when the Prague1 time is 0;
\* otherwise (8, 2) for t before the Prague1 time and (configured
\* denominator, 2) from the Prague1 time on; Prague1 is active at t exactly
\* when t >= the Prague1 time.
C21_BaseFeeParamsAtTimestamp ==
    ParamsResolved =>
        LET g == arg.genesis
            t == arg.timestamp
            prague1_time == EffectivePrague1Time(g)
        IN  /\ result.params.elasticity_multiplier = 2
            /\ (prague1_time = 0) =>
                  result.params.max_change_denominator = ConfiguredDenominator(g)
            /\ (prague1_time # 0 /\ t < prague1_time) =>
                  result.params.max_change_denominator = 8
            /\ (prague1_time # 0 /\ t >= prague1_time) =>
                  result.params.max_change_denominator = ConfiguredDenominator(g)
            /\ result.prague1_active <=> (t >= prague1_time)

\* reached: Prague1 configured at 1000 with denominator 100, asked one second
\* before activation
C21_Witness ==
    /\ ParamsResolved
    /\ EffectivePrague1Time(arg.genesis) = Prague1Late
    /\ ConfiguredDenominator(arg.genesis) = 100
    /\ arg.timestamp = Prague1Late - 1
    /\ result.params.max_change_denominator = 8
    /\ ~result.prague1_active

\* ---------------------------------------------------------------------
\* Claims about the executor's bookkeeping (specification Spec)
\* ---------------------------------------------------------------------

PolReceipts == {k \in DOMAIN receipts : receipts[k].tx_type = "Berachain"}

PolCommits == {k \in DOMAIN db : db[k].src = "pol"}

\* C22: when Prague1 is active and a proposer key is supplied, a
\* pre-execution that returns Ok has run the PoL system call after the
\* block-hash and beacon-root calls and before any transaction, committed its
\* state at once and appended exactly one receipt, the first, of PoL type
\* with cumulative_gas_used 0, with gas_used and the transaction index still
\* 0; when Prague1 is inactive and no key is supplied, it made no PoL call
\* and appended no receipt.
C22_PolRunsInPreExecution ==
    /\ (preRet = "Ok" /\ Prague1ActiveInBlock /\ ctx.prev_proposer_pubkey # NoKey) =>
          /\ polBuilt # NoTx
          /\ Len(db) >= 3
          /\ db[1].src = "blockhashes" /\ db[2].src = "beacon_root"
          /\ db[3] = Commit("pol", 1)
          /\ PolCommits = {3}
          /\ hooks # <<>> /\ hooks[1].index = 0
          /\ receipts # <<>>
          /\ receipts[1].tx_type = "Berachain"
          /\ receipts[1].cumulative_gas_used = 0
          /\ PolReceipts = {1}
          /\ (calls = <<>>) =>
                /\ Len(receipts) = 1
                /\ Len(db) \in {3, 4}
                /\ gas_used = 0
                /\ transaction_index = 0
    /\ (preRet = "Ok" /\ ~Prague1ActiveInBlock /\ ctx.prev_proposer_pubkey = NoKey) =>
          /\ polBuilt = NoTx
          /\ PolCommits = {}
          /\ PolReceipts = {}
          /\ (calls = <<>>) => (receipts = <<>> /\ hooks = <<>>)

\* reached: the PoL call of a Prague1 block reverted, its receipt is the only
\* one and nothing has been sequenced yet
C22_Witness ==
    /\ preRet = "Ok"
    /\ Prague1ActiveInBlock
    /\ ctx.prev_proposer_pubkey # NoKey
    /\ phase = "sequencing"
    /\ calls = <<>>
    /\ Len(receipts) = 1
    /\ ~receipts[1].success
    /\ db[3] = Commit("pol", 1)

\* the call execute_transaction_with_commit_condition made in this step
Sequenced == phase = "sequencing" /\ cursor' = cursor + 1
ThisTx == blockTxs[cursor]
ThisRet == calls'[Len(calls')].ret

ExecutorUntouched ==
    /\ receipts' = receipts
    /\ gas_used' = gas_used
    /\ db' = db
    /\ hooks' = hooks

\* the call is handed a PoL transaction at index 0 of a Prague1 block and the
\* transaction's hash is the hash of the re-derived one
MatchingPolAtIndex0 ==
    /\ Sequenced
    /\ IsPol(ThisTx)
    /\ transaction_index = 0
    /\ Prague1ActiveInBlock
    /\ ctx.prev_proposer_pubkey # NoKey
    /\ LET expected == create_pol_transaction(chainSpec, ctx.prev_proposer_pubkey,
                                              block.number, block.basefee)
       IN  expected.ok /\ tx_hash(ThisTx) = tx_hash(expected.tx)

\* C23: a PoL transaction at index 0 of a Prague1 block whose hash equals the
\* re-derived expectation is accepted with gas used 0 and is not executed:
\* receipts, gas_used, committed state and state hook are as before, and the
\* transaction index is one more.
C23_MatchingPolAcceptedNotExecuted ==
    [][MatchingPolAtIndex0 =>
          /\ ThisRet = OkSome(0)
          /\ ExecutorUntouched
          /\ transaction_index' = transaction_index + 1]_vars

\* reached: the PoL transaction was accepted at index 0; the only receipt is
\* the one pre-execution appended and gas_used is still 0
C23_Witness ==
    /\ Len(calls) = 1
    /\ IsPol(calls[1].tx)
    /\ calls[1].index = 0
    /\ calls[1].ret = OkSome(0)
    /\ transaction_index = 1
    /\ Len(receipts) = 1
    /\ gas_used = 0
    /\ Len(db) = 3

GasLimitExceeded == ErrRet("TransactionGasLimitMoreThanAvailableBlockGas")

\* C24: an ordinary transaction is rejected with
\* TransactionGasLimitMoreThanAvailableBlockGas exactly when its gas limit
\* exceeds the block gas limit minus gas_used; when it is executed and
\* committed gas_used grows by the gas the EVM reports, one receipt with
\* cumulative_gas_used equal to the new gas_used is appended and the
\* transaction index advances by 1; cumulative_gas_used never decreases along
\* the receipts and the last receipt carries gas_used.
C24_OrdinaryTransactionGas ==
    /\ [][(Sequenced /\ ~IsPol(ThisTx)) =>
            /\ (ThisRet = GasLimitExceeded) <=>
                  (ThisTx.gas_limit > block.gas_limit - gas_used)
            /\ (ThisRet.tag = "Some") =>
                  /\ gas_used' = gas_used + ThisRet.gas
                  /\ Len(receipts') = Len(receipts) + 1
                  /\ SubSeq(receipts', 1, Len(receipts)) = receipts
                  /\ receipts'[Len(receipts')].cumulative_gas_used = gas_used'
                  /\ receipts'[Len(receipts')].tx_type = ThisTx.ty
                  /\ db' = Append(db, Commit("tx", cursor))
                  /\ transaction_index' = transaction_index + 1]_vars
    /\ [](/\ \A i, j \in DOMAIN receipts :
                i <= j => receipts[i].cumulative_gas_used <= receipts[j].cumulative_gas_used
          /\ receipts # <<>> => receipts[Len(receipts)].cumulative_gas_used = gas_used)

\* reached: two ordinary transactions were committed and a third call was
\* rejected for its gas limit
C24_Witness ==
    /\ Len(calls) = 3
    /\ calls[1].ret.tag = "Some" /\ calls[1].ret.gas > 0
    /\ calls[2].ret = GasLimitExceeded
    /\ calls[3].ret.tag = "Some" /\ calls[3].ret.gas > 0
    /\ Len(receipts) = 2
    /\ receipts[2].cumulative_gas_used = gas_used
    /\ receipts[1].cumulative_gas_used < receipts[2].cumulative_gas_used

\* C25: a call of execute_transaction_with_commit_condition that returns an
\* error or Ok(None) leaves the receipts, gas_used, the transaction index,
\* the committed state and the state hook exactly as they were.
C25_FailedCallMutatesNothing ==
    [][(Sequenced /\ ThisRet.tag # "Some") =>
          /\ ExecutorUntouched
          /\ transaction_index' = transaction_index]_vars

\* reached: after the PoL transaction and one committed transaction, a call
\* whose commit condition declined
C25_Witness ==
    /\ Len(calls) = 3
    /\ calls[1].ret = OkSome(0) /\ IsPol(calls[1].tx)
    /\ calls[2].ret.tag = "Some"
    /\ calls[3].ret = OkNone
    /\ Len(receipts) = 2
    /\ transaction_index = 2
    /\ gas_used = calls[2].ret.gas

\* C26: the validator's PoL check passes a non-empty block at a Prague1
\* timestamp if and only if the transaction at index 0 is a PoL transaction
\* and no transaction at an index >= 1 is; when a later one is, the error
\* names the first such index.
C26_PolShapeIff ==
    (ValidatorRan /\ Prague1ActiveInBlock /\ blockTxs # <<>>) =>
        LET later == {i \in 2..Len(blockTxs) : blockTxs[i].ty = "Berachain"}
            first_is_pol == blockTxs[1].ty = "Berachain"
        IN  /\ valRet.ok <=> (first_is_pol /\ later = {})
            /\ ~first_is_pol =>
                  valRet.err = "First transaction must be a PoL transaction"
            /\ (first_is_pol /\ later # {}) =>
                  /\ valRet.err = "PoL transaction found at index but only allowed at index 0"
                  /\ valRet.index + 1 \in later
                  /\ \A i \in later : valRet.index + 1 <= i

\* reached: PoL transactions at indexes 0, 1 and 2; the error names index 1
C26_Witness ==
    /\ ValidatorRan
    /\ Prague1ActiveInBlock
    /\ Len(blockTxs) = 3
    /\ \A i \in 1..3 : blockTxs[i].ty = "Berachain"
    /\ ~valRet.ok
    /\ valRet.index = 1

\* ---------------------------------------------------------------------
\* Claims about the header decoder (specification SpecHeader)
\* ---------------------------------------------------------------------

HeaderDecoded == result # NoArg /\ arg.fn = "header_decode"

NumOptionals(h) == Cardinality({i \in DOMAIN OptionalFields(h) : OptionalFields(h)[i].some})

\* the bytes of the first fifteen fields and the first n optional ones
ConsumedBy(buf, n) == SumSize(SubSeq(buf.items, 1, Len(FixedKinds) + n))

IsIncluded(c) == c.ret.tag = "Some"
Included == SelectSeq(calls, IsIncluded)

ProcessedWithoutError ==
    /\ phase = "finished"
    /\ preRet = "Ok"
    /\ \A i \in DOMAIN calls : calls[i].ret.tag # "Err"

ReceiptPerTransaction ==
    /\ Len(receipts) = Len(Included)
    /\ \A i \in DOMAIN Included : receipts[i].tx_type = Included[i].tx.ty
    /\ Len(hooks) = Len(Included)
    /\ \A i \in DOMAIN Included : hooks[i].index = i - 1

EvmWithinGasLimit ==
    \A i \in DOMAIN calls :
        calls[i].ret.tag = "Some" => calls[i].ret.gas <= calls[i].tx.gas_limit

\* C29: as long as the EVM reports no more gas than a transaction's gas
\* limit, gas_used never exceeds the block gas limit, so gas_limit - gas_used
\* does not underflow, whatever PoL, ordinary, rejected and declined
\* transactions were sequenced.
C29_GasUsedWithinBlockLimit ==
    EvmWithinGasLimit =>
        /\ 0 <= gas_used
        /\ gas_used <= block.gas_limit
        /\ (block.gas_limit - gas_used) % (U64Max + 1) = block.gas_limit - gas_used

\* reached: two committed transactions filled the block and a third was
\* rejected for its gas limit
C29_Witness ==
    /\ phase = "sequencing"
    /\ gas_used = block.gas_limit
    /\ gas_used > 0
    /\ Len(calls) = 3
    /\ calls[3].ret = GasLimitExceeded
    /\ EvmWithinGasLimit

\* ---------------------------------------------------------------------
\* Storage encoding of the header (primitives/header.rs, impl Compact)
\* ---------------------------------------------------------------------

\* B64 -> u64 (big endian) and back, the two nonce conversions of the codec
RECURSIVE B64ToU64(_)
B64ToU64(b) ==
    IF b = <<>> THEN 0 ELSE B64ToU64(SubSeq(b, 1, Len(b) - 1)) * 256 + b[Len(b)]

RECURSIVE U64ToB64(_, _)
U64ToB64(v, n) ==
    IF n = 0 THEN <<>> ELSE Append(U64ToB64(v \div 256, n - 1), v % 256)

\* the internal struct to_compact fills: every field copied, the nonce as u64
CompactBerachainHeader(h) == [h EXCEPT !.nonce = B64ToU64(h.nonce)]

\* the derived codec of CompactBerachainHeader: it writes one encoding and
\* reads it back, returning the bytes that follow it
CompactBerachainHeader_to_compact(c) == <<[compact_header |-> c]>>
CompactBerachainHeader_from_compact(buf, len) ==
    [value |-> Head(buf).compact_header, rest |-> Tail(buf)]

\* Compact::to_compact for BerachainHeader
header_to_compact(h) == CompactBerachainHeader_to_compact(CompactBerachainHeader(h))

\* Compact::from_compact for BerachainHeader: the remainder the derived codec
\* returns is dropped and the input buffer is returned
header_from_compact(buf, len) ==
    LET compact_header == CompactBerachainHeader_from_compact(buf, len).value
    IN  [header |-> [compact_header EXCEPT !.nonce = U64ToB64(@, NonceBytes)],
         rest |-> buf]

StoredHeaders ==
    {[h EXCEPT !.nonce = n] :
        h \in {g \in Headers : g.number = 300 /\ g.extra_data.len = 32},
        n \in [1..NonceBytes -> {0, 1, 255}]}

InitCompact ==
    /\ IdleExecutor
    /\ chainSpec = BaseSpec
    /\ arg \in {[fn |-> "header_compact", header |-> h, following |-> f] :
                   h \in StoredHeaders, f \in {<<>>, Bytes(<<1, 2>>)}}
    /\ result = NoArg

\* to_compact of the header into a buffer, other bytes after it, then
\* from_compact of the buffer
HeaderCompact ==
    /\ arg.fn = "header_compact"
    /\ result = NoArg
    /\ LET encoded == header_to_compact(arg.header)
       IN  result' = [fn |-> arg.fn, encoded |-> encoded] @@
                     header_from_compact(encoded \o arg.following, Len(encoded))
    /\ UNCHANGED <<chainSpec, block, ctx, blockTxs, valRet, arg>>
    /\ UNCHANGED execVars

NextCompact == HeaderCompact

SpecCompact == InitCompact /\ [][NextCompact]_vars

HeaderCompacted == result # NoArg /\ arg.fn = "header_compact"

\* C30: from_compact returns a header equal in every field to the stored one,
\* the nonce unchanged by its passage through u64, and the rest of the input:
\* the bytes that follow the header's encoding.
C30_FromCompactReturnsRemainder ==
    HeaderCompacted =>
        /\ result.header = arg.header
        /\ result.header.nonce = arg.header.nonce
        /\ result.rest = arg.following


====
